---- MODULE Spec2Model ----
(***************************************************************************)
(* The containers of DS-Animator (BST, AVLTree, MinHeap, LinkedList,       *)
(* Stack, Queue) as a state machine.  One behaviour exercises one          *)
(* container instance through its public operations; every action is one   *)
(* complete call, and `call` holds what that call handed back (return      *)
(* value, trace, rotation class, out-pointers).                            *)
(*                                                                         *)
(* Pointers: a tree node is a record holding its children, nullptr is a    *)
(* record of its own; a pointer handed to the caller is the node's id, or  *)
(* NULL for nullptr.  List nodes live in a store indexed by id, so that    *)
(* head, tail and next can alias the same node.                            *)
(***************************************************************************)
EXTENDS Integers, Sequences, FiniteSets, Bags, TLC

\* Values the caller passes to a BST or an AVLTree: 1..MaxKey.
MaxKey == 5
\* Values the caller passes to the other containers: 1..MaxVal.
MaxVal == 3
\* Node creations allowed per instance (caps nextNodeId): of a BST or an
\* AVLTree, of a MinHeap, of a LinkedList, of a Stack or a Queue, and of
\* any container in the specification that runs all six.
MaxBstId == 4
MaxAvlId == 4
MaxHeapId == 5
MaxListId == 4
MaxCellId == 5
MaxIdAll == 3
\* Nodes of the largest AVL tree a single call is tried on.
MaxTreeNodes == 12
\* Cells of the largest MinHeap a single call is tried on.
MaxHeapCells == 6
\* The largest value of int, the type of every nextNodeId.
IntMax == 2147483647
\* How far below IntMax a counter stands where the 32-bit calls are tried.
MaxWideSteps == 3

Keys == 1..MaxKey
Values == 1..MaxVal

nullptr == [null |-> TRUE]
NULL == -1

Max(a, b) == IF a > b THEN a ELSE b

\* The address of a node as the caller sees it.
Ptr(node) == IF node = nullptr THEN NULL ELSE node.id

VARIABLES
  container,   \* which container class this instance is
  bst,         \* BST:        [root, nextNodeId]
  avl,         \* AVLTree:    [root, nextNodeId]
  mh,          \* MinHeap:    [heap, nextNodeId]
  list,        \* LinkedList: [head, tail, nextNodeId, size, node]
  stack,       \* Stack:      [elements, nextNodeId]
  queue,       \* Queue:      [elements, nextNodeId]
  call,        \* the last call: operation, argument, results
  issued,      \* ids handed to a node constructor so far
  inserted,    \* values put in and not taken out since (a bag)
  released     \* ids of the nodes BST and AVLTree have passed to delete

vars == <<container, bst, avl, mh, list, stack, queue, call, issued, inserted,
          released>>

Containers == {"BST", "AVL", "HEAP", "LIST", "STACK", "QUEUE"}

\* What a call hands back; the caller passes an empty trace and null outs.
NoCall ==
  [op |-> "none", value |-> 0, success |-> TRUE, result |-> nullptr,
   path |-> <<>>, rotation |-> "NONE", deletedNode |-> NULL,
   successor |-> NULL, created |-> {}, rotated |-> <<>>, overflow |-> FALSE]

(***************************************************************************)
(* BST                                                                     *)
(***************************************************************************)

Node(val, nodeId) ==
  [value |-> val, left |-> nullptr, right |-> nullptr, id |-> nodeId]

\* The by-reference parameters of the helpers, threaded as a record:
\* o.success, o.path, o.deletedNode, o.successor, o.rotation, and the
\* member o.nextNodeId.  o.created and o.rotated note what the call did:
\* the ids it constructed, and the rebalances it performed in the order it
\* performed them (the class, and the id of the node found out of balance).
Outs(nid) ==
  [success |-> TRUE, path |-> <<>>, deletedNode |-> NULL, successor |-> NULL,
   rotation |-> "NONE", nextNodeId |-> nid, created |-> {}, rotated |-> <<>>]

RECURSIVE BSTinsertHelper(_, _, _)
\* insertHelper that sends an equal value to the right subtree.
BSTinsertHelper_dupRight(node, value, o) ==
  IF node = nullptr
  THEN [node |-> Node(value, o.nextNodeId),
        o |-> [o EXCEPT !.nextNodeId = @ + 1,
                        !.path = Append(@, o.nextNodeId),
                        !.created = @ \cup {o.nextNodeId}]]
  ELSE LET o1 == [o EXCEPT !.path = Append(@, node.id)] IN
       IF value < node.value
       THEN LET r == BSTinsertHelper(node.left, value, o1) IN
            [node |-> [node EXCEPT !.left = r.node], o |-> r.o]
       ELSE LET r == BSTinsertHelper(node.right, value, o1) IN
            [node |-> [node EXCEPT !.right = r.node], o |-> r.o]

\* insertHelper that leaves the node it creates out of the path.
BSTinsertHelper_newUntraced(node, value, o) ==
  IF node = nullptr
  THEN [node |-> Node(value, o.nextNodeId),
        o |-> [o EXCEPT !.nextNodeId = @ + 1,
                        !.created = @ \cup {o.nextNodeId}]]
  ELSE LET o1 == [o EXCEPT !.path = Append(@, node.id)] IN
       IF value < node.value
       THEN LET r == BSTinsertHelper(node.left, value, o1) IN
            [node |-> [node EXCEPT !.left = r.node], o |-> r.o]
       ELSE IF value > node.value
       THEN LET r == BSTinsertHelper(node.right, value, o1) IN
            [node |-> [node EXCEPT !.right = r.node], o |-> r.o]
       ELSE [node |-> node, o |-> [o1 EXCEPT !.success = FALSE]]

BSTinsertHelper(node, value, o) ==
  IF node = nullptr
  THEN [node |-> Node(value, o.nextNodeId),
        o |-> [o EXCEPT !.nextNodeId = @ + 1,
                        !.path = Append(@, o.nextNodeId),
                        !.created = @ \cup {o.nextNodeId}]]
  ELSE LET o1 == [o EXCEPT !.path = Append(@, node.id)] IN
       IF value < node.value
       THEN LET r == BSTinsertHelper(node.left, value, o1) IN
            [node |-> [node EXCEPT !.left = r.node], o |-> r.o]
       ELSE IF value > node.value
       THEN LET r == BSTinsertHelper(node.right, value, o1) IN
            [node |-> [node EXCEPT !.right = r.node], o |-> r.o]
       ELSE [node |-> node, o |-> [o1 EXCEPT !.success = FALSE]]

\* findMinWithPath that never walks left.
BSTfindMinWithPath_noWalk(node, path) ==
  IF node = nullptr THEN [node |-> nullptr, path |-> path]
  ELSE [node |-> node, path |-> Append(path, node.id)]

\* Leftmost node of a subtree, with the nodes walked through.
RECURSIVE BSTfindMinWithPath(_, _)
BSTfindMinWithPath(node, path) ==
  IF node = nullptr THEN [node |-> nullptr, path |-> path]
  ELSE IF node.left # nullptr
       THEN BSTfindMinWithPath(node.left, Append(path, node.id))
       ELSE [node |-> node, path |-> Append(path, node.id)]

RECURSIVE BSTdeleteHelper(_, _, _)
\* deleteHelper that moves the successor node itself, id and value, into
\* the place of the node found.
BSTdeleteHelper_movesSuccessor(node, value, o) ==
  IF node = nullptr
  THEN [node |-> nullptr, o |-> [o EXCEPT !.success = FALSE]]
  ELSE LET o1 == [o EXCEPT !.path = Append(@, node.id)] IN
       IF value < node.value
       THEN LET r == BSTdeleteHelper(node.left, value, o1) IN
            [node |-> [node EXCEPT !.left = r.node], o |-> r.o]
       ELSE IF value > node.value
       THEN LET r == BSTdeleteHelper(node.right, value, o1) IN
            [node |-> [node EXCEPT !.right = r.node], o |-> r.o]
       ELSE LET o2 == [o1 EXCEPT !.deletedNode = node.id] IN
            IF node.left = nullptr THEN [node |-> node.right, o |-> o2]
            ELSE IF node.right = nullptr THEN [node |-> node.left, o |-> o2]
            ELSE LET m  == BSTfindMinWithPath(node.right, <<>>)
                     o3 == [o2 EXCEPT !.successor = m.node.id,
                                      !.path = @ \o m.path]
                     r  == BSTdeleteHelper(node.right, m.node.value,
                                           Outs(o.nextNodeId))
                 IN [node |-> [node EXCEPT !.value = m.node.value,
                                           !.id = m.node.id,
                                           !.right = r.node],
                     o |-> o3]

\* deleteHelper whose inner call records its descent in the caller's path.
BSTdeleteHelper_retraces(node, value, o) ==
  IF node = nullptr
  THEN [node |-> nullptr, o |-> [o EXCEPT !.success = FALSE]]
  ELSE LET o1 == [o EXCEPT !.path = Append(@, node.id)] IN
       IF value < node.value
       THEN LET r == BSTdeleteHelper(node.left, value, o1) IN
            [node |-> [node EXCEPT !.left = r.node], o |-> r.o]
       ELSE IF value > node.value
       THEN LET r == BSTdeleteHelper(node.right, value, o1) IN
            [node |-> [node EXCEPT !.right = r.node], o |-> r.o]
       ELSE LET o2 == [o1 EXCEPT !.deletedNode = node.id] IN
            IF node.left = nullptr THEN [node |-> node.right, o |-> o2]
            ELSE IF node.right = nullptr THEN [node |-> node.left, o |-> o2]
            ELSE LET m  == BSTfindMinWithPath(node.right, <<>>)
                     o3 == [o2 EXCEPT !.successor = m.node.id,
                                      !.path = @ \o m.path]
                     r  == BSTdeleteHelper(node.right, m.node.value, o3)
                 IN [node |-> [node EXCEPT !.value = m.node.value,
                                           !.right = r.node],
                     o |-> [o3 EXCEPT !.path = r.o.path]]

BSTdeleteHelper(node, value, o) ==
  IF node = nullptr
  THEN [node |-> nullptr, o |-> [o EXCEPT !.success = FALSE]]
  ELSE LET o1 == [o EXCEPT !.path = Append(@, node.id)] IN
       IF value < node.value
       THEN LET r == BSTdeleteHelper(node.left, value, o1) IN
            [node |-> [node EXCEPT !.left = r.node], o |-> r.o]
       ELSE IF value > node.value
       THEN LET r == BSTdeleteHelper(node.right, value, o1) IN
            [node |-> [node EXCEPT !.right = r.node], o |-> r.o]
       ELSE LET o2 == [o1 EXCEPT !.deletedNode = node.id] IN
            IF node.left = nullptr THEN [node |-> node.right, o |-> o2]
            ELSE IF node.right = nullptr THEN [node |-> node.left, o |-> o2]
            ELSE LET m  == BSTfindMinWithPath(node.right, <<>>)
                     o3 == [o2 EXCEPT !.successor = m.node.id,
                                      !.path = @ \o m.path]
                     \* the inner call works on temporaries of its own
                     r  == BSTdeleteHelper(node.right, m.node.value,
                                           Outs(o.nextNodeId))
                 IN [node |-> [node EXCEPT !.value = m.node.value,
                                           !.right = r.node],
                     o |-> o3]

RECURSIVE BSTsearchHelper(_, _, _)
\* searchHelper that records a node only when it goes on below it.
BSTsearchHelper_foundUntraced(node, value, path) ==
  IF node = nullptr THEN [node |-> nullptr, path |-> path]
  ELSE IF value < node.value
       THEN BSTsearchHelper(node.left, value, Append(path, node.id))
       ELSE IF value > node.value
       THEN BSTsearchHelper(node.right, value, Append(path, node.id))
       ELSE [node |-> node, path |-> path]

BSTsearchHelper(node, value, path) ==
  IF node = nullptr THEN [node |-> nullptr, path |-> path]
  ELSE LET p == Append(path, node.id) IN
       IF value < node.value THEN BSTsearchHelper(node.left, value, p)
       ELSE IF value > node.value THEN BSTsearchHelper(node.right, value, p)
       ELSE [node |-> node, path |-> p]

RECURSIVE inorderHelper(_)
inorderHelper(node) ==
  IF node = nullptr THEN <<>>
  ELSE inorderHelper(node.left) \o <<node.value>> \o inorderHelper(node.right)

\* The nodes of a subtree, pre-order.
RECURSIVE collectNodes(_)
collectNodes(node) ==
  IF node = nullptr THEN <<>>
  ELSE <<node>> \o collectNodes(node.left) \o collectNodes(node.right)

Returned(op, value, o) ==
  [op |-> op, value |-> value, success |-> o.success, result |-> nullptr,
   path |-> o.path, rotation |-> o.rotation, deletedNode |-> o.deletedNode,
   successor |-> o.successor, created |-> o.created, rotated |-> o.rotated,
   overflow |-> FALSE]

BSTInsert(value) ==
  /\ container = "BST"
  /\ bst.nextNodeId < MaxBstId
  /\ LET r == BSTinsertHelper(bst.root, value, Outs(bst.nextNodeId)) IN
       /\ bst' = [root |-> r.node, nextNodeId |-> r.o.nextNodeId]
       /\ call' = Returned("insert", value, r.o)
       /\ issued' = issued \cup r.o.created
  /\ inserted' = IF BagIn(value, inserted) THEN inserted
                 ELSE inserted (+) SetToBag({value})
  /\ UNCHANGED <<container, avl, mh, list, stack, queue>>
  /\ UNCHANGED released

BSTRemove(value) ==
  /\ container = "BST"
  /\ LET r == BSTdeleteHelper(bst.root, value, Outs(bst.nextNodeId)) IN
       /\ bst' = [root |-> r.node, nextNodeId |-> r.o.nextNodeId]
       /\ call' = Returned("remove", value, r.o)
  /\ inserted' = inserted (-) SetToBag({value})
  /\ UNCHANGED <<container, avl, mh, list, stack, queue, issued>>
  /\ UNCHANGED released

BSTcontains(root, value) == BSTsearchHelper(root, value, <<>>).node # nullptr

\* search: the node found, or nullptr, and the nodes visited.
BSTSearch(value) ==
  /\ container = "BST"
  /\ LET r == BSTsearchHelper(bst.root, value, <<>>) IN
       call' = [NoCall EXCEPT !.op = "search", !.value = value,
                              !.success = (r.node # nullptr),
                              !.result = r.node, !.path = r.path]
  /\ UNCHANGED <<container, bst, avl, mh, list, stack, queue, issued, inserted>>
  /\ UNCHANGED released

BSTContains(value) ==
  /\ container = "BST"
  /\ call' = [NoCall EXCEPT !.op = "contains", !.value = value,
                            !.success = BSTcontains(bst.root, value)]
  /\ UNCHANGED <<container, bst, avl, mh, list, stack, queue, issued, inserted>>
  /\ UNCHANGED released

\* The ids of the nodes clearHelper deletes: the subtree, children first.
RECURSIVE clearHelper(_)
clearHelper(node) ==
  IF node = nullptr THEN {}
  ELSE clearHelper(node.left) \cup clearHelper(node.right) \cup {node.id}

\* clear that also starts the id counter again.
BSTClear_resetsCounter ==
  /\ container = "BST"
  /\ bst' = [root |-> nullptr, nextNodeId |-> 0]
  /\ call' = [NoCall EXCEPT !.op = "clear"]
  /\ inserted' = EmptyBag
  /\ UNCHANGED <<container, avl, mh, list, stack, queue, issued>>
  /\ released' = released \cup clearHelper(bst.root)

BSTClear ==
  /\ container = "BST"
  /\ bst' = [bst EXCEPT !.root = nullptr]
  /\ call' = [NoCall EXCEPT !.op = "clear"]
  /\ inserted' = EmptyBag
  /\ UNCHANGED <<container, avl, mh, list, stack, queue, issued>>
  /\ released' = released \cup clearHelper(bst.root)

(***************************************************************************)
(* AVLTree                                                                 *)
(***************************************************************************)

AVLNode(val, nodeId) ==
  [value |-> val, left |-> nullptr, right |-> nullptr, height |-> 1,
   id |-> nodeId]

getHeight(node) == IF node # nullptr THEN node.height ELSE 0

getBalance(node) ==
  IF node # nullptr THEN getHeight(node.left) - getHeight(node.right) ELSE 0

updateHeight(node) ==
  IF node # nullptr
  THEN [node EXCEPT !.height = 1 + Max(getHeight(node.left), getHeight(node.right))]
  ELSE node

\* rotateRight with the two height updates in the other order.
rotateRight_xFirst(y) ==
  LET x  == y.left
      T2 == x.right
      y0 == [y EXCEPT !.left = T2]
      x1 == updateHeight([x EXCEPT !.right = y0])
  IN [x1 EXCEPT !.right = updateHeight(y0)]

\* y's left child x becomes the subtree root; y is updated before x.
rotateRight(y) ==
  LET x  == y.left
      T2 == x.right
      y1 == updateHeight([y EXCEPT !.left = T2])
  IN updateHeight([x EXCEPT !.right = y1])

\* rotateLeft that leaves the height of x as it was.
rotateLeft_staleX(x) ==
  LET y  == x.right
      T2 == y.left
      x1 == [x EXCEPT !.right = T2]
  IN updateHeight([y EXCEPT !.left = x1])

\* x's right child y becomes the subtree root; x is updated before y.
rotateLeft(x) ==
  LET y  == x.right
      T2 == y.left
      x1 == updateHeight([x EXCEPT !.right = T2])
  IN updateHeight([y EXCEPT !.left = x1])

\* rotation = <class>, with the rebalance noted in o.rotated.
Rotated(o, class, at) ==
  [o EXCEPT !.rotation = class,
            !.rotated = Append(@, [class |-> class, at |-> at])]

RECURSIVE AVLinsertHelper(_, _, _)
\* The rebalance of insertHelper with the classes of the two double
\* rotations exchanged.
AVLinsertRebalance_swapped(node0, value, o) ==
  LET node    == updateHeight(node0)
      balance == getBalance(node)
  IN IF balance > 1 /\ value < node.left.value
     THEN [node |-> rotateRight(node), o |-> Rotated(o, "RIGHT", node.id)]
     ELSE IF balance < -1 /\ value > node.right.value
     THEN [node |-> rotateLeft(node), o |-> Rotated(o, "LEFT", node.id)]
     ELSE IF balance > 1 /\ value > node.left.value
     THEN [node |-> rotateRight([node EXCEPT !.left = rotateLeft(node.left)]),
           o |-> Rotated(o, "RIGHT_LEFT", node.id)]
     ELSE IF balance < -1 /\ value < node.right.value
     THEN [node |-> rotateLeft([node EXCEPT !.right = rotateRight(node.right)]),
           o |-> Rotated(o, "LEFT_RIGHT", node.id)]
     ELSE [node |-> node, o |-> o]

\* The rebalance of insertHelper that reports NONE from every node it finds
\* in balance.
AVLinsertRebalance_resets(node0, value, o) ==
  LET node    == updateHeight(node0)
      balance == getBalance(node)
  IN IF balance > 1 /\ value < node.left.value
     THEN [node |-> rotateRight(node), o |-> Rotated(o, "RIGHT", node.id)]
     ELSE IF balance < -1 /\ value > node.right.value
     THEN [node |-> rotateLeft(node), o |-> Rotated(o, "LEFT", node.id)]
     ELSE IF balance > 1 /\ value > node.left.value
     THEN [node |-> rotateRight([node EXCEPT !.left = rotateLeft(node.left)]),
           o |-> Rotated(o, "LEFT_RIGHT", node.id)]
     ELSE IF balance < -1 /\ value < node.right.value
     THEN [node |-> rotateLeft([node EXCEPT !.right = rotateRight(node.right)]),
           o |-> Rotated(o, "RIGHT_LEFT", node.id)]
     ELSE [node |-> node, o |-> [o EXCEPT !.rotation = "NONE"]]

\* The part of insertHelper after the recursive call has returned.
AVLinsertRebalance(node0, value, o) ==
  LET node    == updateHeight(node0)
      balance == getBalance(node)
  IN IF balance > 1 /\ value < node.left.value
     THEN [node |-> rotateRight(node), o |-> Rotated(o, "RIGHT", node.id)]
     ELSE IF balance < -1 /\ value > node.right.value
     THEN [node |-> rotateLeft(node), o |-> Rotated(o, "LEFT", node.id)]
     ELSE IF balance > 1 /\ value > node.left.value
     THEN [node |-> rotateRight([node EXCEPT !.left = rotateLeft(node.left)]),
           o |-> Rotated(o, "LEFT_RIGHT", node.id)]
     ELSE IF balance < -1 /\ value < node.right.value
     THEN [node |-> rotateLeft([node EXCEPT !.right = rotateRight(node.right)]),
           o |-> Rotated(o, "RIGHT_LEFT", node.id)]
     ELSE [node |-> node, o |-> o]

\* insertHelper that leaves the node it creates out of the path.
AVLinsertHelper_newUntraced(node, value, o) ==
  IF node = nullptr
  THEN [node |-> AVLNode(value, o.nextNodeId),
        o |-> [o EXCEPT !.nextNodeId = @ + 1,
                        !.created = @ \cup {o.nextNodeId}]]
  ELSE LET o1 == [o EXCEPT !.path = Append(@, node.id)] IN
       IF value < node.value
       THEN LET r == AVLinsertHelper(node.left, value, o1) IN
            AVLinsertRebalance([node EXCEPT !.left = r.node], value, r.o)
       ELSE IF value > node.value
       THEN LET r == AVLinsertHelper(node.right, value, o1) IN
            AVLinsertRebalance([node EXCEPT !.right = r.node], value, r.o)
       ELSE [node |-> node, o |-> [o1 EXCEPT !.success = FALSE]]

AVLinsertHelper(node, value, o) ==
  IF node = nullptr
  THEN [node |-> AVLNode(value, o.nextNodeId),
        o |-> [o EXCEPT !.nextNodeId = @ + 1,
                        !.path = Append(@, o.nextNodeId),
                        !.created = @ \cup {o.nextNodeId}]]
  ELSE LET o1 == [o EXCEPT !.path = Append(@, node.id)] IN
       IF value < node.value
       THEN LET r == AVLinsertHelper(node.left, value, o1) IN
            AVLinsertRebalance([node EXCEPT !.left = r.node], value, r.o)
       ELSE IF value > node.value
       THEN LET r == AVLinsertHelper(node.right, value, o1) IN
            AVLinsertRebalance([node EXCEPT !.right = r.node], value, r.o)
       ELSE [node |-> node, o |-> [o1 EXCEPT !.success = FALSE]]

\* findMin that never walks left.
AVLfindMin_noWalk(node) == node

RECURSIVE AVLfindMin(_)
AVLfindMin(node) ==
  IF node # nullptr /\ node.left # nullptr THEN AVLfindMin(node.left) ELSE node

\* The rebalance of deleteHelper that leaves rotation alone once it is set.
AVLdeleteRebalance_keepsFirst(node0, o) ==
  LET node    == updateHeight(node0)
      balance == getBalance(node)
      note(class) ==
        [o EXCEPT !.rotation = IF @ = "NONE" THEN class ELSE @,
                  !.rotated = Append(@, [class |-> class, at |-> node.id])]
  IN IF balance > 1 /\ getBalance(node.left) >= 0
     THEN [node |-> rotateRight(node), o |-> note("RIGHT")]
     ELSE IF balance > 1 /\ getBalance(node.left) < 0
     THEN [node |-> rotateRight([node EXCEPT !.left = rotateLeft(node.left)]),
           o |-> note("LEFT_RIGHT")]
     ELSE IF balance < -1 /\ getBalance(node.right) <= 0
     THEN [node |-> rotateLeft(node), o |-> note("LEFT")]
     ELSE IF balance < -1 /\ getBalance(node.right) > 0
     THEN [node |-> rotateLeft([node EXCEPT !.right = rotateRight(node.right)]),
           o |-> note("RIGHT_LEFT")]
     ELSE [node |-> node, o |-> o]

\* The part of deleteHelper after the recursive call has returned.
AVLdeleteRebalance(node0, o) ==
  LET node    == updateHeight(node0)
      balance == getBalance(node)
  IN IF balance > 1 /\ getBalance(node.left) >= 0
     THEN [node |-> rotateRight(node), o |-> Rotated(o, "RIGHT", node.id)]
     ELSE IF balance > 1 /\ getBalance(node.left) < 0
     THEN [node |-> rotateRight([node EXCEPT !.left = rotateLeft(node.left)]),
           o |-> Rotated(o, "LEFT_RIGHT", node.id)]
     ELSE IF balance < -1 /\ getBalance(node.right) <= 0
     THEN [node |-> rotateLeft(node), o |-> Rotated(o, "LEFT", node.id)]
     ELSE IF balance < -1 /\ getBalance(node.right) > 0
     THEN [node |-> rotateLeft([node EXCEPT !.right = rotateRight(node.right)]),
           o |-> Rotated(o, "RIGHT_LEFT", node.id)]
     ELSE [node |-> node, o |-> o]

RECURSIVE AVLdeleteHelper(_, _, _)
\* deleteHelper that unlinks the successor without copying its value up.
AVLdeleteHelper_keepsValue(node, value, o) ==
  IF node = nullptr
  THEN [node |-> nullptr, o |-> [o EXCEPT !.success = FALSE]]
  ELSE LET o1 == [o EXCEPT !.path = Append(@, node.id)] IN
       IF value < node.value
       THEN LET r == AVLdeleteHelper(node.left, value, o1) IN
            AVLdeleteRebalance([node EXCEPT !.left = r.node], r.o)
       ELSE IF value > node.value
       THEN LET r == AVLdeleteHelper(node.right, value, o1) IN
            AVLdeleteRebalance([node EXCEPT !.right = r.node], r.o)
       ELSE LET o2 == [o1 EXCEPT !.deletedNode = node.id] IN
            IF node.left = nullptr \/ node.right = nullptr
            THEN LET temp == IF node.left # nullptr THEN node.left
                             ELSE node.right
                 IN [node |-> temp, o |-> o2]
            ELSE LET temp == AVLfindMin(node.right)
                     r    == AVLdeleteHelper(node.right, temp.value, o2)
                 IN AVLdeleteRebalance([node EXCEPT !.right = r.node], r.o)

AVLdeleteHelper(node, value, o) ==
  IF node = nullptr
  THEN [node |-> nullptr, o |-> [o EXCEPT !.success = FALSE]]
  ELSE LET o1 == [o EXCEPT !.path = Append(@, node.id)] IN
       IF value < node.value
       THEN LET r == AVLdeleteHelper(node.left, value, o1) IN
            AVLdeleteRebalance([node EXCEPT !.left = r.node], r.o)
       ELSE IF value > node.value
       THEN LET r == AVLdeleteHelper(node.right, value, o1) IN
            AVLdeleteRebalance([node EXCEPT !.right = r.node], r.o)
       ELSE LET o2 == [o1 EXCEPT !.deletedNode = node.id] IN
            IF node.left = nullptr \/ node.right = nullptr
            THEN LET temp == IF node.left # nullptr THEN node.left
                             ELSE node.right
                 IN [node |-> temp, o |-> o2]
            ELSE \* the inner call shares success, path, deletedNode, rotation
                 LET temp == AVLfindMin(node.right)
                     r    == AVLdeleteHelper(node.right, temp.value, o2)
                 IN AVLdeleteRebalance([node EXCEPT !.value = temp.value,
                                                    !.right = r.node], r.o)

RECURSIVE AVLsearchHelper(_, _, _)
AVLsearchHelper(node, value, path) ==
  IF node = nullptr THEN [node |-> nullptr, path |-> path]
  ELSE LET p == Append(path, node.id) IN
       IF value < node.value THEN AVLsearchHelper(node.left, value, p)
       ELSE IF value > node.value THEN AVLsearchHelper(node.right, value, p)
       ELSE [node |-> node, path |-> p]

\* The call itself; AVLInsert is the call while the instance may still
\* create nodes.
AVLinsert(value) ==
  /\ container = "AVL"
  /\ LET r == AVLinsertHelper(avl.root, value, Outs(avl.nextNodeId)) IN
       /\ avl' = [root |-> r.node, nextNodeId |-> r.o.nextNodeId]
       /\ call' = Returned("insert", value, r.o)
       /\ issued' = issued \cup r.o.created
  /\ inserted' = IF BagIn(value, inserted) THEN inserted
                 ELSE inserted (+) SetToBag({value})
  /\ UNCHANGED <<container, bst, mh, list, stack, queue>>
  /\ UNCHANGED released

AVLInsert(value) == avl.nextNodeId < MaxAvlId /\ AVLinsert(value)

AVLRemove(value) ==
  /\ container = "AVL"
  /\ LET r == AVLdeleteHelper(avl.root, value, Outs(avl.nextNodeId)) IN
       /\ avl' = [root |-> r.node, nextNodeId |-> r.o.nextNodeId]
       /\ call' = Returned("remove", value, r.o)
  /\ inserted' = inserted (-) SetToBag({value})
  /\ UNCHANGED <<container, bst, mh, list, stack, queue, issued>>
  /\ UNCHANGED released

AVLcontains(root, value) == AVLsearchHelper(root, value, <<>>).node # nullptr

\* search: the node found, or nullptr, and the nodes visited.
AVLSearch(value) ==
  /\ container = "AVL"
  /\ LET r == AVLsearchHelper(avl.root, value, <<>>) IN
       call' = [NoCall EXCEPT !.op = "search", !.value = value,
                              !.success = (r.node # nullptr),
                              !.result = r.node, !.path = r.path]
  /\ UNCHANGED <<container, bst, avl, mh, list, stack, queue, issued, inserted>>
  /\ UNCHANGED released

AVLContains(value) ==
  /\ container = "AVL"
  /\ call' = [NoCall EXCEPT !.op = "contains", !.value = value,
                            !.success = AVLcontains(avl.root, value)]
  /\ UNCHANGED <<container, bst, avl, mh, list, stack, queue, issued, inserted>>
  /\ UNCHANGED released

AVLClear ==
  /\ container = "AVL"
  /\ avl' = [avl EXCEPT !.root = nullptr]
  /\ call' = [NoCall EXCEPT !.op = "clear"]
  /\ inserted' = EmptyBag
  /\ UNCHANGED <<container, bst, mh, list, stack, queue, issued>>
  /\ released' = released \cup clearHelper(avl.root)

(***************************************************************************)
(* MinHeap: heap is a vector of cells, indices are 0-based as in the code  *)
(***************************************************************************)

HeapNode(val, nodeId) == [value |-> val, id |-> nodeId]

At(h, i) == h[i + 1]

parent(i) == (i - 1) \div 2
leftChild(i) == 2 * i + 1
rightChild(i) == 2 * i + 2

swap(h, i, j) == [h EXCEPT ![i + 1] = h[j + 1], ![j + 1] = h[i + 1]]

pop_back(h) == SubSeq(h, 1, Len(h) - 1)

\* Sift-up written with an if in place of the while: one swap at most.
siftUp_once(h, current, siftPath) ==
  IF current > 0 /\ At(h, parent(current)).value > At(h, current).value
  THEN [heap |-> swap(h, current, parent(current)),
        current |-> parent(current),
        siftPath |-> Append(siftPath, parent(current))]
  ELSE [heap |-> h, current |-> current, siftPath |-> siftPath]

\* while (current > 0 && heap[parent(current)]->value > heap[current]->value)
RECURSIVE siftUp(_, _, _)
\* Sift-up that records the slot it leaves in place of the one it moves to.
siftUp_tracesChild(h, current, siftPath) ==
  IF current > 0 /\ At(h, parent(current)).value > At(h, current).value
  THEN siftUp(swap(h, current, parent(current)), parent(current),
              Append(siftPath, current))
  ELSE [heap |-> h, current |-> current, siftPath |-> siftPath]

siftUp(h, current, siftPath) ==
  IF current > 0 /\ At(h, parent(current)).value > At(h, current).value
  THEN siftUp(swap(h, current, parent(current)), parent(current),
              Append(siftPath, parent(current)))
  ELSE [heap |-> h, current |-> current, siftPath |-> siftPath]

\* Sift-down that never looks at the right child.
RECURSIVE siftDown_leftOnly(_, _, _)
siftDown_leftOnly(h, current, siftPath) ==
  LET left == leftChild(current)
      smallest == IF left < Len(h) /\ At(h, left).value < At(h, current).value
                  THEN left ELSE current
  IN IF smallest # current
     THEN siftDown_leftOnly(swap(h, current, smallest), smallest,
                            Append(siftPath, smallest))
     ELSE [heap |-> h, current |-> current, siftPath |-> siftPath]

\* The while (true) loop of extractMin and remove.
RECURSIVE siftDown(_, _, _)
\* Sift-down that takes the right child when the two children are equal.
siftDown_rightOnTie(h, current, siftPath) ==
  LET left  == leftChild(current)
      right == rightChild(current)
      s1 == IF left < Len(h) /\ At(h, left).value < At(h, current).value
            THEN left ELSE current
      smallest == IF right < Len(h) /\ At(h, right).value <= At(h, s1).value
                     /\ At(h, right).value < At(h, current).value
                  THEN right ELSE s1
  IN IF smallest # current
     THEN siftDown(swap(h, current, smallest), smallest,
                   Append(siftPath, smallest))
     ELSE [heap |-> h, current |-> current, siftPath |-> siftPath]

siftDown(h, current, siftPath) ==
  LET left  == leftChild(current)
      right == rightChild(current)
      s1 == IF left < Len(h) /\ At(h, left).value < At(h, current).value
            THEN left ELSE current
      smallest == IF right < Len(h) /\ At(h, right).value < At(h, s1).value
                  THEN right ELSE s1
  IN IF smallest # current
     THEN siftDown(swap(h, current, smallest), smallest,
                   Append(siftPath, smallest))
     ELSE [heap |-> h, current |-> current, siftPath |-> siftPath]

MHinsert(h, value, nid) ==
  LET h1 == Append(h, HeapNode(value, nid))
      current == Len(h1) - 1
  IN siftUp(h1, current, <<current>>)

\* extractMin that records the root index before looking at the size.
MHextractMin_tracesFirst(h) ==
  IF h = <<>> THEN [heap |-> h, minNode |-> nullptr, siftPath |-> <<0>>]
  ELSE LET minNode == At(h, 0)
           h1 == pop_back([h EXCEPT ![1] = h[Len(h)]])
       IN IF h1 # <<>>
          THEN LET r == siftDown(h1, 0, <<0>>) IN
               [heap |-> r.heap, minNode |-> minNode, siftPath |-> r.siftPath]
          ELSE [heap |-> h1, minNode |-> minNode, siftPath |-> <<0>>]

MHextractMin(h) ==
  IF h = <<>> THEN [heap |-> h, minNode |-> nullptr, siftPath |-> <<>>]
  ELSE LET minNode == At(h, 0)
           h1 == pop_back([h EXCEPT ![1] = h[Len(h)]])
       IN IF h1 # <<>>
          THEN LET r == siftDown(h1, 0, <<0>>) IN
               [heap |-> r.heap, minNode |-> minNode, siftPath |-> r.siftPath]
          ELSE [heap |-> h1, minNode |-> minNode, siftPath |-> <<0>>]

\* A search that stops on the last index when no cell holds value.
MHfind_lastOnMiss(h, value, i) ==
  LET hits == {j \in i..Len(h) - 1 : At(h, j).value = value} IN
  IF hits # {} THEN CHOOSE j \in hits : \A k \in hits : j <= k
  ELSE Len(h) - 1

\* The first index holding value, or -1.
RECURSIVE MHfind(_, _, _)
MHfind(h, value, i) ==
  IF i < Len(h)
  THEN IF At(h, i).value = value THEN i ELSE MHfind(h, value, i + 1)
  ELSE -1

\* remove that leaves out the sift-up after the sift-down.
MHremove_noSiftUp(h, value) ==
  LET index == MHfind(h, value, 0) IN
  IF index = -1
  THEN [heap |-> h, success |-> FALSE, siftPath |-> <<>>, deleted |-> {}]
  ELSE LET toDelete == At(h, index)
           h1 == pop_back([h EXCEPT ![index + 1] = h[Len(h)]])
       IN IF index < Len(h1)
          THEN LET d == siftDown(h1, index, <<index>>)
               IN [heap |-> d.heap, success |-> TRUE, siftPath |-> d.siftPath,
                   deleted |-> {toDelete.id}]
          ELSE [heap |-> h1, success |-> TRUE, siftPath |-> <<index>>,
                deleted |-> {toDelete.id}]

MHremove(h, value) ==
  LET index == MHfind(h, value, 0) IN
  IF index = -1
  THEN [heap |-> h, success |-> FALSE, siftPath |-> <<>>, deleted |-> {}]
  ELSE LET toDelete == At(h, index)
           h1 == pop_back([h EXCEPT ![index + 1] = h[Len(h)]])
       IN IF index < Len(h1)
          THEN LET d == siftDown(h1, index, <<index>>)
                   u == siftUp(d.heap, d.current, d.siftPath)
               IN [heap |-> u.heap, success |-> TRUE, siftPath |-> u.siftPath,
                   deleted |-> {toDelete.id}]
          ELSE [heap |-> h1, success |-> TRUE, siftPath |-> <<index>>,
                deleted |-> {toDelete.id}]

\* search: the index of the first cell holding value or -1, and the
\* indices looked at.
RECURSIVE MHsearch(_, _, _, _)
MHsearch(h, value, i, searchPath) ==
  IF i < Len(h)
  THEN IF At(h, i).value = value
       THEN [index |-> i, searchPath |-> Append(searchPath, i)]
       ELSE MHsearch(h, value, i + 1, Append(searchPath, i))
  ELSE [index |-> -1, searchPath |-> searchPath]

MHpeekMin(h) == IF h = <<>> THEN nullptr ELSE At(h, 0)

\* The least value of a non-empty bag.
BagMin(b) == CHOOSE m \in BagToSet(b) : \A x \in BagToSet(b) : m <= x

HeapInsert(value) ==
  /\ container = "HEAP"
  /\ mh.nextNodeId < MaxHeapId
  /\ LET r == MHinsert(mh.heap, value, mh.nextNodeId) IN
       /\ mh' = [heap |-> r.heap, nextNodeId |-> mh.nextNodeId + 1]
       /\ call' = [NoCall EXCEPT !.op = "insert", !.value = value,
                                 !.path = r.siftPath,
                                 !.created = {mh.nextNodeId}]
  /\ issued' = issued \cup {mh.nextNodeId}
  /\ inserted' = inserted (+) SetToBag({value})
  /\ UNCHANGED <<container, bst, avl, list, stack, queue>>
  /\ UNCHANGED released

HeapExtractMin ==
  /\ container = "HEAP"
  /\ LET r == MHextractMin(mh.heap) IN
       /\ mh' = [mh EXCEPT !.heap = r.heap]
       /\ call' = [NoCall EXCEPT !.op = "extractMin", !.result = r.minNode,
                                 !.path = r.siftPath]
  /\ inserted' = IF inserted = EmptyBag THEN inserted
                 ELSE inserted (-) SetToBag({BagMin(inserted)})
  /\ UNCHANGED <<container, bst, avl, list, stack, queue, issued>>
  /\ UNCHANGED released

HeapPeekMin ==
  /\ container = "HEAP"
  /\ call' = [NoCall EXCEPT !.op = "peekMin", !.result = MHpeekMin(mh.heap)]
  /\ UNCHANGED <<container, bst, avl, mh, list, stack, queue, issued, inserted>>
  /\ UNCHANGED released

HeapRemove(value) ==
  /\ container = "HEAP"
  /\ LET r == MHremove(mh.heap, value) IN
       /\ mh' = [mh EXCEPT !.heap = r.heap]
       /\ call' = [NoCall EXCEPT !.op = "remove", !.value = value,
                                 !.success = r.success, !.path = r.siftPath]
  /\ inserted' = inserted (-) SetToBag({value})
  /\ UNCHANGED <<container, bst, avl, list, stack, queue, issued>>
  /\ UNCHANGED released

HeapClear ==
  /\ container = "HEAP"
  /\ mh' = [mh EXCEPT !.heap = <<>>]
  /\ call' = [NoCall EXCEPT !.op = "clear"]
  /\ inserted' = EmptyBag
  /\ UNCHANGED <<container, bst, avl, list, stack, queue, issued>>
  /\ UNCHANGED released

(***************************************************************************)
(* Stack and Queue: elements is a vector of cells                          *)
(***************************************************************************)

StackNode(val, nodeId) == [value |-> val, id |-> nodeId]
QueueNode(val, nodeId) == [value |-> val, id |-> nodeId]

StackPush(value) ==
  /\ container = "STACK"
  /\ stack.nextNodeId < MaxCellId
  /\ LET newNode == StackNode(value, stack.nextNodeId) IN
       /\ stack' = [elements |-> Append(stack.elements, newNode),
                    nextNodeId |-> stack.nextNodeId + 1]
       /\ call' = [NoCall EXCEPT !.op = "push", !.value = value,
                                 !.result = newNode,
                                 !.created = {stack.nextNodeId}]
  /\ issued' = issued \cup {stack.nextNodeId}
  /\ UNCHANGED <<container, bst, avl, mh, list, queue, inserted>>
  /\ UNCHANGED released

\* pop that detaches the bottom cell.
StackPop_bottom ==
  /\ container = "STACK"
  /\ IF stack.elements = <<>>
     THEN /\ call' = [NoCall EXCEPT !.op = "pop"]
          /\ UNCHANGED stack
     ELSE /\ call' = [NoCall EXCEPT !.op = "pop",
                        !.result = Head(stack.elements)]
          /\ stack' = [stack EXCEPT !.elements = Tail(@)]
  /\ UNCHANGED <<container, bst, avl, mh, list, queue, issued, inserted>>
  /\ UNCHANGED released

StackPop ==
  /\ container = "STACK"
  /\ IF stack.elements = <<>>
     THEN /\ call' = [NoCall EXCEPT !.op = "pop"]
          /\ UNCHANGED stack
     ELSE /\ call' = [NoCall EXCEPT !.op = "pop",
                        !.result = stack.elements[Len(stack.elements)]]
          /\ stack' = [stack EXCEPT !.elements = pop_back(@)]
  /\ UNCHANGED <<container, bst, avl, mh, list, queue, issued, inserted>>
  /\ UNCHANGED released

StackPeek ==
  /\ container = "STACK"
  /\ call' = [NoCall EXCEPT !.op = "peek",
                !.result = IF stack.elements = <<>> THEN nullptr
                           ELSE stack.elements[Len(stack.elements)]]
  /\ UNCHANGED <<container, bst, avl, mh, list, stack, queue, issued, inserted>>
  /\ UNCHANGED released

StackClear ==
  /\ container = "STACK"
  /\ stack' = [stack EXCEPT !.elements = <<>>]
  /\ call' = [NoCall EXCEPT !.op = "clear"]
  /\ UNCHANGED <<container, bst, avl, mh, list, queue, issued, inserted>>
  /\ UNCHANGED released

QueueEnqueue(value) ==
  /\ container = "QUEUE"
  /\ queue.nextNodeId < MaxCellId
  /\ LET newNode == QueueNode(value, queue.nextNodeId) IN
       /\ queue' = [elements |-> Append(queue.elements, newNode),
                    nextNodeId |-> queue.nextNodeId + 1]
       /\ call' = [NoCall EXCEPT !.op = "enqueue", !.value = value,
                                 !.result = newNode,
                                 !.created = {queue.nextNodeId}]
  /\ issued' = issued \cup {queue.nextNodeId}
  /\ UNCHANGED <<container, bst, avl, mh, list, stack, inserted>>
  /\ UNCHANGED released

\* dequeue that detaches the rear cell.
QueueDequeue_rear ==
  /\ container = "QUEUE"
  /\ IF queue.elements = <<>>
     THEN /\ call' = [NoCall EXCEPT !.op = "dequeue"]
          /\ UNCHANGED queue
     ELSE /\ call' = [NoCall EXCEPT !.op = "dequeue",
                        !.result = queue.elements[Len(queue.elements)]]
          /\ queue' = [queue EXCEPT !.elements = pop_back(@)]
  /\ UNCHANGED <<container, bst, avl, mh, list, stack, issued, inserted>>
  /\ UNCHANGED released

QueueDequeue ==
  /\ container = "QUEUE"
  /\ IF queue.elements = <<>>
     THEN /\ call' = [NoCall EXCEPT !.op = "dequeue"]
          /\ UNCHANGED queue
     ELSE /\ call' = [NoCall EXCEPT !.op = "dequeue",
                                    !.result = Head(queue.elements)]
          /\ queue' = [queue EXCEPT !.elements = Tail(@)]
  /\ UNCHANGED <<container, bst, avl, mh, list, stack, issued, inserted>>
  /\ UNCHANGED released

QueuePeekFront ==
  /\ container = "QUEUE"
  /\ call' = [NoCall EXCEPT !.op = "peekFront",
                !.result = IF queue.elements = <<>> THEN nullptr
                           ELSE Head(queue.elements)]
  /\ UNCHANGED <<container, bst, avl, mh, list, stack, queue, issued, inserted>>
  /\ UNCHANGED released

QueuePeekRear ==
  /\ container = "QUEUE"
  /\ call' = [NoCall EXCEPT !.op = "peekRear",
                !.result = IF queue.elements = <<>> THEN nullptr
                           ELSE queue.elements[Len(queue.elements)]]
  /\ UNCHANGED <<container, bst, avl, mh, list, stack, queue, issued, inserted>>
  /\ UNCHANGED released

QueueClear ==
  /\ container = "QUEUE"
  /\ queue' = [queue EXCEPT !.elements = <<>>]
  /\ call' = [NoCall EXCEPT !.op = "clear"]
  /\ UNCHANGED <<container, bst, avl, mh, list, stack, issued, inserted>>
  /\ UNCHANGED released

(***************************************************************************)
(* LinkedList: list.node maps the address (id) of each node the list owns  *)
(* to its fields; head, tail and next hold addresses or NULL               *)
(***************************************************************************)

ListNode(val) == [value |-> val, next |-> NULL]

\* while (current != nullptr) { path.push_back(current); current = current->next; }
RECURSIVE LLwalk(_, _)
LLwalk(node, current) ==
  IF current = NULL THEN <<>>
  ELSE <<current>> \o LLwalk(node, node[current].next)

Without(node, a) == [x \in DOMAIN node \ {a} |-> node[x]]

LLinsertAtTail(l, value) ==
  LET newNode == l.nextNodeId
      store   == (newNode :> ListNode(value)) @@ l.node
  IN IF l.head = NULL
     THEN [list |-> [head |-> newNode, tail |-> newNode,
                     nextNodeId |-> l.nextNodeId + 1, size |-> l.size + 1,
                     node |-> store],
           path |-> <<newNode>>]
     ELSE [list |-> [head |-> l.head, tail |-> newNode,
                     nextNodeId |-> l.nextNodeId + 1, size |-> l.size + 1,
                     node |-> [store EXCEPT ![l.tail].next = newNode]],
           path |-> Append(LLwalk(l.node, l.head), newNode)]

LLinsertAtHead(l, value) ==
  LET newNode == l.nextNodeId
      store   == (newNode :> ListNode(value)) @@ l.node
  IN IF l.head = NULL
     THEN [list |-> [head |-> newNode, tail |-> newNode,
                     nextNodeId |-> l.nextNodeId + 1, size |-> l.size + 1,
                     node |-> store],
           path |-> <<newNode>>]
     ELSE [list |-> [head |-> newNode, tail |-> l.tail,
                     nextNodeId |-> l.nextNodeId + 1, size |-> l.size + 1,
                     node |-> [store EXCEPT ![newNode].next = l.head]],
           path |-> <<newNode>>]

\* The search loop of remove without the update of tail.
RECURSIVE LLremoveLoop_staleTail(_, _, _, _, _)
LLremoveLoop_staleTail(l, value, prev, current, path) ==
  IF current = NULL
  THEN [list |-> l, success |-> FALSE, deletedNode |-> NULL, path |-> path]
  ELSE LET p == Append(path, current) IN
       IF l.node[current].value = value
       THEN [list |-> [l EXCEPT !.node = Without(
                                   [@ EXCEPT ![prev].next = l.node[current].next],
                                   current),
                                !.size = @ - 1],
             success |-> TRUE, deletedNode |-> current, path |-> p]
       ELSE LLremoveLoop_staleTail(l, value, current, l.node[current].next, p)

\* The search loop of remove, from (prev, current) on.
RECURSIVE LLremoveLoop(_, _, _, _, _)
\* The search loop that walks past a match while a later node matches too.
LLremoveLoop_lastMatch(l, value, prev, current, path) ==
  IF current = NULL
  THEN [list |-> l, success |-> FALSE, deletedNode |-> NULL, path |-> path]
  ELSE LET p == Append(path, current)
           rest == LLwalk(l.node, l.node[current].next)
       IN
       IF /\ l.node[current].value = value
          /\ \A i \in 1..Len(rest) : l.node[rest[i]].value # value
       THEN [list |-> [l EXCEPT !.node = Without(
                                   [@ EXCEPT ![prev].next = l.node[current].next],
                                   current),
                                !.tail = IF current = l.tail THEN prev ELSE @,
                                !.size = @ - 1],
             success |-> TRUE, deletedNode |-> current, path |-> p]
       ELSE LLremoveLoop(l, value, current, l.node[current].next, p)

LLremoveLoop(l, value, prev, current, path) ==
  IF current = NULL
  THEN [list |-> l, success |-> FALSE, deletedNode |-> NULL, path |-> path]
  ELSE LET p == Append(path, current) IN
       IF l.node[current].value = value
       THEN [list |-> [l EXCEPT !.node = Without(
                                   [@ EXCEPT ![prev].next = l.node[current].next],
                                   current),
                                !.tail = IF current = l.tail THEN prev ELSE @,
                                !.size = @ - 1],
             success |-> TRUE, deletedNode |-> current, path |-> p]
       ELSE LLremoveLoop(l, value, current, l.node[current].next, p)

\* remove that leaves head out of the trace when head is not the match.
LLremove_headUntraced(l, value) ==
  IF l.head = NULL
  THEN [list |-> l, success |-> FALSE, deletedNode |-> NULL, path |-> <<>>]
  ELSE IF l.node[l.head].value = value
  THEN LET newHead == l.node[l.head].next IN
       [list |-> [l EXCEPT !.head = newHead,
                           !.tail = IF newHead = NULL THEN NULL ELSE @,
                           !.size = @ - 1,
                           !.node = Without(@, l.head)],
        success |-> TRUE, deletedNode |-> l.head, path |-> <<l.head>>]
  ELSE LLremoveLoop(l, value, l.head, l.node[l.head].next, <<>>)

LLremove(l, value) ==
  IF l.head = NULL
  THEN [list |-> l, success |-> FALSE, deletedNode |-> NULL, path |-> <<>>]
  ELSE IF l.node[l.head].value = value
  THEN LET newHead == l.node[l.head].next IN
       [list |-> [l EXCEPT !.head = newHead,
                           !.tail = IF newHead = NULL THEN NULL ELSE @,
                           !.size = @ - 1,
                           !.node = Without(@, l.head)],
        success |-> TRUE, deletedNode |-> l.head, path |-> <<l.head>>]
  ELSE LLremoveLoop(l, value, l.head, l.node[l.head].next, <<l.head>>)

\* search: the first node from head holding value or NULL, and the nodes
\* looked at.
RECURSIVE LLsearch(_, _, _, _)
LLsearch(l, value, current, path) ==
  IF current = NULL THEN [node |-> NULL, path |-> path]
  ELSE IF l.node[current].value = value
       THEN [node |-> current, path |-> Append(path, current)]
       ELSE LLsearch(l, value, l.node[current].next, Append(path, current))

LLclear(l) ==
  LET gone == {LLwalk(l.node, l.head)[i] : i \in 1..Len(LLwalk(l.node, l.head))}
  IN [l EXCEPT !.head = NULL, !.tail = NULL, !.size = 0,
               !.node = [x \in DOMAIN @ \ gone |-> @[x]]]

ListInsertAtTail(value) ==
  /\ container = "LIST"
  /\ list.nextNodeId < MaxListId
  /\ LET r == LLinsertAtTail(list, value) IN
       /\ list' = r.list
       /\ call' = [NoCall EXCEPT !.op = "insertAtTail", !.value = value,
                                 !.path = r.path,
                                 !.created = {list.nextNodeId}]
  /\ issued' = issued \cup {list.nextNodeId}
  /\ UNCHANGED <<container, bst, avl, mh, stack, queue, inserted>>
  /\ UNCHANGED released

ListInsertAtHead(value) ==
  /\ container = "LIST"
  /\ list.nextNodeId < MaxListId
  /\ LET r == LLinsertAtHead(list, value) IN
       /\ list' = r.list
       /\ call' = [NoCall EXCEPT !.op = "insertAtHead", !.value = value,
                                 !.path = r.path,
                                 !.created = {list.nextNodeId}]
  /\ issued' = issued \cup {list.nextNodeId}
  /\ UNCHANGED <<container, bst, avl, mh, stack, queue, inserted>>
  /\ UNCHANGED released

ListRemove(value) ==
  /\ container = "LIST"
  /\ LET r == LLremove(list, value) IN
       /\ list' = r.list
       /\ call' = [NoCall EXCEPT !.op = "remove", !.value = value,
                                 !.success = r.success, !.path = r.path,
                                 !.deletedNode = r.deletedNode]
  /\ UNCHANGED <<container, bst, avl, mh, stack, queue, issued, inserted>>
  /\ UNCHANGED released

ListClear ==
  /\ container = "LIST"
  /\ list' = LLclear(list)
  /\ call' = [NoCall EXCEPT !.op = "clear"]
  /\ UNCHANGED <<container, bst, avl, mh, stack, queue, issued, inserted>>
  /\ UNCHANGED released

(***************************************************************************)
(* Vocabulary of the properties                                            *)
(***************************************************************************)

IsTree == container \in {"BST", "AVL"}

\* The root of the tree under test.
Root == IF container = "BST" THEN bst.root ELSE avl.root

Range(seq) == {seq[i] : i \in 1..Len(seq)}

StrictlyIncreasing(seq) == \A i \in 1..Len(seq) - 1 : seq[i] < seq[i + 1]
NonDecreasing(seq) == \A i \in 1..Len(seq) - 1 : seq[i] <= seq[i + 1]

\* The values of a subtree, as a set.
TreeValues(node) == Range(inorderHelper(node))

\* The height of a subtree recomputed from its shape (null = 0, leaf = 1).
RECURSIVE RealHeight(_)
RealHeight(node) ==
  IF node = nullptr THEN 0
  ELSE 1 + Max(RealHeight(node.left), RealHeight(node.right))

Abs(x) == IF x < 0 THEN -x ELSE x

\* The elements of a finite set of integers in increasing order.
RECURSIVE SortedSeq(_)
SortedSeq(S) ==
  IF S = {} THEN <<>>
  ELSE LET m == CHOOSE x \in S : \A y \in S : x <= y
       IN <<m>> \o SortedSeq(S \ {m})

(***************************************************************************)
(* C1: after every AVLTree insert, remove and clear, each node's two       *)
(* subtrees differ in height by at most one and each node's cached height  *)
(* is the height recomputed from the shape of its subtree.                 *)
(***************************************************************************)
C1_AVLBalancedHeights ==
  container = "AVL" =>
    \A n \in Range(collectNodes(avl.root)) :
      /\ Abs(RealHeight(n.left) - RealHeight(n.right)) <= 1
      /\ n.height = RealHeight(n)

\* A remove that rebalanced with a double rotation.
C1_Witness ==
  /\ container = "AVL"
  /\ call.op = "remove" /\ call.success
  /\ call.rotation \in {"LEFT_RIGHT", "RIGHT_LEFT"}
  /\ Len(collectNodes(avl.root)) >= 3

(***************************************************************************)
(* C2: after every BST or AVLTree insert and remove, the in-order          *)
(* traversal is strictly increasing: at every node the left subtree holds  *)
(* smaller values only, the right subtree larger values only.              *)
(***************************************************************************)
C2_InorderStrictlyIncreasing ==
  IsTree =>
    /\ StrictlyIncreasing(inorderHelper(Root))
    /\ \A n \in Range(collectNodes(Root)) :
         /\ \A x \in TreeValues(n.left) : x < n.value
         /\ \A x \in TreeValues(n.right) : x > n.value

\* An AVLTree insert that rotated twice, after an earlier remove.
C2_Witness ==
  /\ container = "AVL"
  /\ call.op = "insert" /\ call.success
  /\ call.rotation = "RIGHT_LEFT"
  /\ Len(inorderHelper(avl.root)) = 3
  /\ avl.nextNodeId = 4

(***************************************************************************)
(* C3: the in-order traversal of a BST or AVLTree is the sorted set of the *)
(* values inserted and not removed since; insert(v) succeeds iff v was     *)
(* absent, remove(v) succeeds iff v was present, contains(v) answers       *)
(* whether v is in that set.                                               *)
(***************************************************************************)
C3_TreeIsSortedSet ==
  [][IsTree =>
       /\ inorderHelper(Root') = SortedSeq(BagToSet(inserted'))
       /\ call'.op = "insert" => (call'.success <=> ~BagIn(call'.value, inserted))
       /\ call'.op = "remove" => (call'.success <=> BagIn(call'.value, inserted))
       /\ \A v \in Keys :
            (IF container = "BST" THEN BSTcontains(Root', v)
             ELSE AVLcontains(Root', v)) <=> BagIn(v, inserted')
    ]_vars

\* A BST remove of a node with two children whose successor lay below the
\* right child.
C3_Witness ==
  /\ container = "BST"
  /\ call.op = "remove" /\ call.success
  /\ call.successor # NULL
  /\ Len(call.path) >= 3
  /\ Len(inorderHelper(bst.root)) >= 3

(***************************************************************************)
(* C4: after every MinHeap insert, extractMin, remove and clear the array  *)
(* is dense (as many cells as values put in and not taken out, every slot  *)
(* a cell) and no cell is smaller than the cell at its parent index.       *)
(***************************************************************************)
HeapValues(h) == [i \in 1..Len(h) |-> h[i].value]

SeqToBag(seq) ==
  [x \in Range(seq) |-> Cardinality({i \in 1..Len(seq) : seq[i] = x})]

C4_HeapOrder ==
  container = "HEAP" =>
    /\ Len(mh.heap) = BagCardinality(inserted)
    /\ \A i \in 0..Len(mh.heap) - 1 : At(mh.heap, i) # nullptr
    /\ \A i \in 1..Len(mh.heap) - 1 :
         At(mh.heap, parent(i)).value <= At(mh.heap, i).value

\* A remove whose replacement cell sifted down, in a heap holding equal
\* values.
C4_Witness ==
  /\ container = "HEAP"
  /\ call.op = "remove" /\ call.success
  /\ Len(call.path) >= 2
  /\ Len(mh.heap) >= 3
  /\ \E i, j \in 1..Len(mh.heap) : i # j /\ mh.heap[i].value = mh.heap[j].value

(***************************************************************************)
(* C5: extractMin repeated on a MinHeap until it returns null yields the   *)
(* values in non-decreasing order, exactly the multiset the heap was       *)
(* given, the size going down by one per call; inserting 5, 3, 8, 1, 4     *)
(* gives the array 1, 3, 8, 5, 4 and the extraction order 1, 3, 4, 5, 8.   *)
(***************************************************************************)
\* extractMin until null: per call the value returned and the size left.
RECURSIVE Drain(_)
Drain(h) ==
  LET r == MHextractMin(h) IN
  IF r.minNode = nullptr THEN <<>>
  ELSE <<[value |-> r.minNode.value, size |-> Len(r.heap)]>> \o Drain(r.heap)

\* insert of each value of a sequence in turn, ids from nid on.
RECURSIVE InsertAll(_, _, _)
InsertAll(h, values, nid) ==
  IF values = <<>> THEN h
  ELSE InsertAll(MHinsert(h, Head(values), nid).heap, Tail(values), nid + 1)

C5_ExtractSorted ==
  container = "HEAP" =>
    /\ LET d == Drain(mh.heap) IN
         /\ NonDecreasing([i \in 1..Len(d) |-> d[i].value])
         /\ SeqToBag([i \in 1..Len(d) |-> d[i].value]) = inserted
         /\ Len(d) = Len(mh.heap)
         /\ \A i \in 1..Len(d) : d[i].size = Len(mh.heap) - i
    /\ LET h == InsertAll(<<>>, <<5, 3, 8, 1, 4>>, 0)
           d == Drain(h)
       IN /\ HeapValues(h) = <<1, 3, 8, 5, 4>>
          /\ [i \in 1..Len(d) |-> d[i].value] = <<1, 3, 4, 5, 8>>

\* Five values inserted into an empty heap, some equal, the array not in
\* sorted order.
C5_Witness ==
  /\ container = "HEAP"
  /\ call.op = "insert"
  /\ Len(mh.heap) = 5 /\ mh.nextNodeId = 5
  /\ ~NonDecreasing(HeapValues(mh.heap))
  /\ Cardinality(Range(HeapValues(mh.heap))) = 3

(***************************************************************************)
(* C6: after every LinkedList insertAtHead, insertAtTail, remove and clear *)
(* head is null iff tail is null iff size is 0; in a non-empty list the    *)
(* walk along next from head visits exactly size nodes, ends at tail, and  *)
(* tail's next is null.                                                    *)
(***************************************************************************)
C6_ListShape ==
  container = "LIST" =>
    /\ (list.head = NULL) <=> (list.tail = NULL)
    /\ (list.head = NULL) <=> (list.size = 0)
    /\ list.head # NULL =>
         LET w == LLwalk(list.node, list.head) IN
           /\ Len(w) = list.size
           /\ w[Len(w)] = list.tail
           /\ list.node[list.tail].next = NULL

\* A remove that took out the tail (it walked the whole list) and left two
\* nodes or more.
C6_Witness ==
  /\ container = "LIST"
  /\ call.op = "remove" /\ call.success
  /\ Len(call.path) = list.size + 1
  /\ list.size >= 2

(***************************************************************************)
(* C7: within one container instance the ids issued so far are exactly     *)
(* 0 .. counter-1 (the counter starts at 0), the counter never decreases,  *)
(* every node is created with an id no node of that instance has had       *)
(* before (also after removals and after clear), and the nodes in the      *)
(* container carry pairwise different ids.                                 *)
(***************************************************************************)
\* The instance's counter.
Counter ==
  CASE container = "BST" -> bst.nextNodeId
    [] container = "AVL" -> avl.nextNodeId
    [] container = "HEAP" -> mh.nextNodeId
    [] container = "LIST" -> list.nextNodeId
    [] container = "STACK" -> stack.nextNodeId
    [] container = "QUEUE" -> queue.nextNodeId

\* The ids of the nodes the instance holds, one entry per node.
IdsOf(cells) == [i \in 1..Len(cells) |-> cells[i].id]

HeldIds ==
  CASE container = "BST" -> LET c == collectNodes(bst.root) IN IdsOf(c)
    [] container = "AVL" -> LET c == collectNodes(avl.root) IN IdsOf(c)
    [] container = "HEAP" -> IdsOf(mh.heap)
    [] container = "LIST" -> LLwalk(list.node, list.head)
    [] container = "STACK" -> IdsOf(stack.elements)
    [] container = "QUEUE" -> IdsOf(queue.elements)

Distinct(seq) == Cardinality(Range(seq)) = Len(seq)

C7_IdsNeverReused ==
  [][/\ issued = 0..(Counter - 1)
     /\ issued' = 0..(Counter' - 1)
     /\ Counter' >= Counter
     /\ call'.created \cap issued = {}
     /\ call'.created # {} => Counter' > Counter
     /\ LET held == HeldIds' IN
          Distinct(held) /\ Range(held) \subseteq issued'
    ]_vars

\* A BST insert that created the third node of the instance when the two
\* before it had been removed or cleared.
C7_Witness ==
  /\ container = "BST"
  /\ call.op = "insert" /\ call.created = {2}
  /\ Len(collectNodes(bst.root)) = 1

(***************************************************************************)
(* C8: a BST or AVL insert(v) when v is already in the tree returns false, *)
(* leaves the tree as it was (shape, values, ids, cached heights) and the  *)
(* id counter too, creates no node, ends its trace at the node that holds  *)
(* v, and reports rotation NONE; on a tree holding 50, 30, insert(30)      *)
(* fails with the trace node(50), node(30).                                *)
(***************************************************************************)
C8_DuplicateInsert ==
  [][/\ (IsTree /\ call'.op = "insert" /\ call'.value \in TreeValues(Root)) =>
          /\ ~call'.success
          /\ bst' = bst /\ avl' = avl
          /\ call'.created = {}
          /\ call'.path # <<>>
          /\ \E n \in Range(collectNodes(Root)) :
               n.value = call'.value /\ n.id = call'.path[Len(call'.path)]
          /\ call'.rotation = "NONE"
     /\ LET t50 == BSTinsertHelper(nullptr, 50, Outs(0))
            t30 == BSTinsertHelper(t50.node, 30, Outs(t50.o.nextNodeId))
            dup == BSTinsertHelper(t30.node, 30, Outs(t30.o.nextNodeId))
        IN /\ ~dup.o.success
           /\ dup.node = t30.node
           /\ dup.o.nextNodeId = t30.o.nextNodeId
           /\ t30.node.left.value = 30
           /\ dup.o.path = <<t50.node.id, t30.node.left.id>>
    ]_vars

\* An AVL insert that was refused below the root, in a tree of three nodes.
C8_Witness ==
  /\ container = "AVL"
  /\ call.op = "insert" /\ ~call.success
  /\ Len(call.path) >= 2
  /\ Len(collectNodes(avl.root)) >= 3

(***************************************************************************)
(* C9: remove(v) for a value v that a BST, an AVL tree, a linked list or a *)
(* heap does not hold returns false and changes nothing: shape, values,    *)
(* cached heights, size and id counter are as before the call; for AVL the *)
(* rotation is NONE and the deleted-node reference is null.                *)
(***************************************************************************)
\* The values of the list, head to tail.
ListValues(l) ==
  LET w == LLwalk(l.node, l.head) IN [i \in 1..Len(w) |-> l.node[w[i]].value]

\* The values the container under test holds.
Held ==
  CASE container \in {"BST", "AVL"} -> TreeValues(Root)
    [] container = "HEAP" -> Range(HeapValues(mh.heap))
    [] container = "LIST" -> Range(ListValues(list))
    [] OTHER -> {}

C9_RemoveAbsent ==
  [][(/\ container \in {"BST", "AVL", "HEAP", "LIST"}
      /\ call'.op = "remove"
      /\ call'.value \notin Held) =>
       /\ ~call'.success
       /\ bst' = bst /\ avl' = avl /\ mh' = mh /\ list' = list
       /\ Counter' = Counter
       /\ container = "LIST" => list'.size = list.size
       /\ container = "AVL" =>
            call'.rotation = "NONE" /\ call'.deletedNode = NULL
    ]_vars

\* An AVL remove that walked two nodes or more and found nothing.
C9_Witness ==
  /\ container = "AVL"
  /\ call.op = "remove" /\ ~call.success
  /\ call.value \notin TreeValues(avl.root)
  /\ Len(call.path) >= 2

(***************************************************************************)
(* C10: Stack pop and peek, Queue dequeue, peekFront and peekRear, MinHeap *)
(* extractMin and peekMin on an empty container return null and leave the  *)
(* container empty and as it was, id counter included; extractMin leaves   *)
(* its trace empty.                                                        *)
(***************************************************************************)
\* The cells of the stack, the queue or the heap under test.
Cells ==
  CASE container = "STACK" -> stack.elements
    [] container = "QUEUE" -> queue.elements
    [] container = "HEAP" -> mh.heap
    [] OTHER -> <<>>

C10_EmptyAccess ==
  [][(/\ container \in {"STACK", "QUEUE", "HEAP"}
      /\ Cells = <<>>
      /\ call'.op \in {"pop", "peek", "dequeue", "peekFront", "peekRear",
                       "extractMin", "peekMin"}) =>
       /\ call'.result = nullptr
       /\ Cells' = <<>>
       /\ stack' = stack /\ queue' = queue /\ mh' = mh
       /\ Counter' = Counter
       /\ call'.op = "extractMin" => call'.path = <<>>
    ]_vars

\* An extractMin that found the heap empty after cells had been put in and
\* taken out.
C10_Witness ==
  /\ container = "HEAP"
  /\ call.op = "extractMin" /\ call.result = nullptr
  /\ mh.heap = <<>> /\ mh.nextNodeId >= 2

(***************************************************************************)
(* C11: in a BST or an AVLTree every node the container ever created is    *)
(* either reachable from root or has been released by the container: a     *)
(* successful remove deletes the node it unlinks, and clear deletes the    *)
(* nodes that remain.                                                      *)
(***************************************************************************)
C11_UnlinkedNodeReleased ==
  IsTree => issued = Range(HeldIds) \cup released

(***************************************************************************)
(* C12, as the code has it: when one AVL remove rotates at more than one   *)
(* node on its way back up, the rotation class handed to the caller is     *)
(* that of the last rotation performed (the one nearest the root), each    *)
(* rotation overwriting the class of the one before.                       *)
(***************************************************************************)
C12_LastRotationReported ==
  (container = "AVL" /\ call.op = "remove" /\ Len(call.rotated) > 1) =>
     call.rotation = call.rotated[Len(call.rotated)].class

\* C12 as stated: the class handed to the caller is that of the first
\* rotation of the unwind, the one at the deepest node out of balance.
C12_FirstRotationReported ==
  (container = "AVL" /\ call.op = "remove" /\ Len(call.rotated) > 1) =>
     call.rotation = call.rotated[1].class

\* A remove that rotated twice, with two different classes.
C12_Witness ==
  /\ container = "AVL"
  /\ call.op = "remove" /\ call.success
  /\ Len(call.rotated) = 2
  /\ call.rotated[1].class # call.rotated[2].class

(***************************************************************************)
(* C13: for every AVL insert and remove the one rotation class handed to   *)
(* the caller is that of the topmost rotation the call performed (at the   *)
(* rotated node nearest the root), and it is NONE iff the call performed   *)
(* no rotation; an insert that reports NONE has left every parent-child    *)
(* link of the tree in place, and one that reports a class has not.        *)
(***************************************************************************)
\* Where id stands in a trace: on a descent, its depth.
IndexIn(path, id) == CHOOSE i \in 1..Len(path) : path[i] = id

\* The parent-child links of a subtree.
RECURSIVE Edges(_)
Edges(node) ==
  IF node = nullptr THEN {}
  ELSE (IF node.left = nullptr THEN {} ELSE {<<node.id, "left", node.left.id>>})
       \cup (IF node.right = nullptr THEN {}
             ELSE {<<node.id, "right", node.right.id>>})
       \cup Edges(node.left) \cup Edges(node.right)

C13_TopmostRotationReported ==
  [][(container = "AVL" /\ call'.op \in {"insert", "remove"}) =>
       LET c == call' IN
       /\ (c.rotation = "NONE") <=> (c.rotated = <<>>)
       /\ \A i \in 1..Len(c.rotated) : c.rotated[i].at \in Range(c.path)
       /\ c.rotated # <<>> =>
            \E i \in 1..Len(c.rotated) :
              /\ \A j \in 1..Len(c.rotated) :
                   IndexIn(c.path, c.rotated[i].at)
                     <= IndexIn(c.path, c.rotated[j].at)
              /\ c.rotation = c.rotated[i].class
       /\ (c.op = "insert" /\ c.success) =>
            ((c.rotation = "NONE") <=> (Edges(avl.root) \subseteq Edges(avl'.root)))
    ]_vars

\* A remove that rotated at two nodes, the second above the first, with
\* different classes.
C13_Witness ==
  /\ container = "AVL"
  /\ call.op = "remove" /\ call.success
  /\ Len(call.rotated) = 2
  /\ IndexIn(call.path, call.rotated[2].at) < IndexIn(call.path, call.rotated[1].at)
  /\ call.rotated[1].class = "RIGHT" /\ call.rotated[2].class = "LEFT"

(***************************************************************************)
(* C14: when an AVL insert of a new value v finds a node z out of balance, *)
(* the class reported names the two steps of the descent from z toward the *)
(* new leaf: RIGHT for left-left, LEFT for right-right, LEFT_RIGHT for     *)
(* left-right, RIGHT_LEFT for right-left; after the rotation the node in   *)
(* z's place is the median of z and the next two nodes of the descent,     *)
(* with the other two as its children.  Inserting 30, 20, 10 reports       *)
(* RIGHT and inserting 30, 10, 20 reports LEFT_RIGHT, both ending with     *)
(* root 20 (height 2), left 10, right 30 (height 1 each).                  *)
(***************************************************************************)
\* The value held by the node with this id.
ValueOf(root, id) ==
  LET ns == collectNodes(root)
  IN ns[CHOOSE i \in 1..Len(ns) : ns[i].id = id].value

ClassOf(first, second) ==
  CASE first = "left" /\ second = "left" -> "RIGHT"
    [] first = "right" /\ second = "right" -> "LEFT"
    [] first = "left" /\ second = "right" -> "LEFT_RIGHT"
    [] first = "right" /\ second = "left" -> "RIGHT_LEFT"

\* The tree after inserting the values of seq into an empty AVLTree, with
\* the rotation class of the last insert.
RECURSIVE AVLInsertAll(_, _, _)
AVLInsertAll(seq, root, o) ==
  IF seq = <<>> THEN [node |-> root, o |-> o]
  ELSE LET r == AVLinsertHelper(root, Head(seq), Outs(o.nextNodeId))
       IN AVLInsertAll(Tail(seq), r.node, r.o)

\* Inserting 30, 20, 10 and inserting 30, 10, 20 into an empty AVLTree.
LeftLeftAndLeftRightExamples ==
  LET ll == AVLInsertAll(<<30, 20, 10>>, nullptr, Outs(0))
      lr == AVLInsertAll(<<30, 10, 20>>, nullptr, Outs(0))
  IN /\ ll.o.rotation = "RIGHT" /\ lr.o.rotation = "LEFT_RIGHT"
     /\ \A t \in {ll.node, lr.node} :
          /\ t.value = 20 /\ t.left.value = 10 /\ t.right.value = 30
          /\ t.height = 2 /\ t.left.height = 1 /\ t.right.height = 1
          /\ inorderHelper(t) = <<10, 20, 30>>

C14_RotationGeometry ==
  [][/\ (container = "AVL" /\ call'.op = "insert" /\ call'.success
           /\ call'.rotated # <<>>) =>
          LET c  == call'
              v  == c.value
              z  == c.rotated[1].at
              k  == IndexIn(c.path, z)
          IN /\ Len(c.rotated) = 1
             /\ k + 2 <= Len(c.path)
             /\ LET y  == c.path[k + 1]
                    x  == c.path[k + 2]
                    vz == ValueOf(avl.root, z)
                    vy == ValueOf(avl.root, y)
                    vx == ValueOf(avl'.root, x)
                    val(n) == IF n = z THEN vz ELSE IF n = y THEN vy ELSE vx
                    first  == IF v < vz THEN "left" ELSE "right"
                    second == IF v < vy THEN "left" ELSE "right"
                    m  == CHOOSE n \in {z, y, x} :
                            Cardinality({w \in {vz, vy, vx} : w < val(n)}) = 1
                    lo == CHOOSE n \in {z, y, x} : val(n) < val(m)
                    hi == CHOOSE n \in {z, y, x} : val(n) > val(m)
                    before == Edges(avl.root)
                    after  == Edges(avl'.root)
                IN /\ <<z, first, y>> \in before
                   /\ x \in c.created \/ <<y, second, x>> \in before
                   /\ c.rotation = ClassOf(first, second)
                   /\ <<m, "left", lo>> \in after
                   /\ <<m, "right", hi>> \in after
                   /\ IF k = 1 THEN avl'.root.id = m
                      ELSE \E side \in {"left", "right"} :
                             /\ <<c.path[k - 1], side, z>> \in before
                             /\ <<c.path[k - 1], side, m>> \in after
     /\ LeftLeftAndLeftRightExamples
    ]_vars

\* An insert that rotated left-right at a node below the root, the new
\* leaf lying below the three nodes of the rotation.
C14_Witness ==
  /\ container = "AVL"
  /\ call.op = "insert" /\ call.success
  /\ call.rotation = "LEFT_RIGHT"
  /\ IndexIn(call.path, call.rotated[1].at) >= 2
  /\ IndexIn(call.path, call.rotated[1].at) + 3 <= Len(call.path)

(***************************************************************************)
(* C15: after a successful BST or AVL remove(v) the deleted-node reference *)
(* is the node that held v when the call started; when that node has two   *)
(* children it is still in the tree (its value overwritten) and is not the *)
(* unlinked successor; the BST successor reference is the unlinked         *)
(* successor in that case and null otherwise.                              *)
(***************************************************************************)
\* The node of the subtree that holds value.
NodeHolding(root, value) ==
  LET ns == collectNodes(root)
  IN ns[CHOOSE i \in 1..Len(ns) : ns[i].value = value]

\* The id of the leftmost node of a subtree.
RECURSIVE LeftmostId(_)
LeftmostId(node) ==
  IF node.left = nullptr THEN node.id ELSE LeftmostId(node.left)

C15_DeletedNodeIsTarget ==
  [][(IsTree /\ call'.op = "remove" /\ call'.success) =>
       LET target == NodeHolding(Root, call'.value)
           two    == target.left # nullptr /\ target.right # nullptr
           left   == Range(IdsOf(collectNodes(Root')))
       IN /\ call'.deletedNode = target.id
          /\ two => /\ call'.deletedNode \in left
                    /\ LeftmostId(target.right) \notin left
                    /\ call'.deletedNode # LeftmostId(target.right)
          /\ container = "BST" =>
               call'.successor = IF two THEN LeftmostId(target.right) ELSE NULL
    ]_vars

(***************************************************************************)
(* C16: for any BST or AVLTree the class can hold and any value v not in   *)
(* it, insert(v) followed by remove(v) gives a tree with the in-order      *)
(* traversal it had before the two calls and, for AVL, the same set of     *)
(* node heights.                                                           *)
(***************************************************************************)
\* The heights cached in the nodes of a subtree, as a set.
HeightsOf(root) == {n.height : n \in Range(collectNodes(root))}

\* The tree after insert(v) then remove(v), and whether both succeeded.
BSTInsertThenRemove(root, nid, v) ==
  LET i == BSTinsertHelper(root, v, Outs(nid))
      r == BSTdeleteHelper(i.node, v, Outs(i.o.nextNodeId))
  IN [node |-> r.node, ok |-> i.o.success /\ r.o.success]

AVLInsertThenRemove(root, nid, v) ==
  LET i == AVLinsertHelper(root, v, Outs(nid))
      r == AVLdeleteHelper(i.node, v, Outs(i.o.nextNodeId))
  IN [node |-> r.node, ok |-> i.o.success /\ r.o.success]

\* Values the tree does not hold: the caller's, and one in or next to every
\* gap between the values it holds.
Absent(root) ==
  (Keys \cup {0} \cup {x - 1 : x \in TreeValues(root)}
        \cup {x + 1 : x \in TreeValues(root)}) \ TreeValues(root)

C16_InsertThenRemove ==
  /\ container = "BST" =>
       \A v \in Absent(bst.root) :
         LET t == BSTInsertThenRemove(bst.root, bst.nextNodeId, v)
         IN t.ok /\ inorderHelper(t.node) = inorderHelper(bst.root)
  /\ container = "AVL" =>
       \A v \in Absent(avl.root) :
         LET t == AVLInsertThenRemove(avl.root, avl.nextNodeId, v)
         IN /\ t.ok
            /\ inorderHelper(t.node) = inorderHelper(avl.root)
            /\ HeightsOf(t.node) = HeightsOf(avl.root)

\* An AVLTree of four nodes and a value whose insert rotates, so that the
\* tree after the two calls has another shape than before them.
C16_Witness ==
  /\ container = "AVL"
  /\ Len(collectNodes(avl.root)) = 4
  /\ \E v \in Keys \ TreeValues(avl.root) :
       /\ AVLinsertHelper(avl.root, v, Outs(avl.nextNodeId)).o.rotation
            \in {"LEFT_RIGHT", "RIGHT_LEFT"}
       /\ AVLInsertThenRemove(avl.root, avl.nextNodeId, v).node # avl.root

(***************************************************************************)
(* C17: Stack is LIFO over any sequence of push, pop and clear: push puts  *)
(* a new cell on top, pop returns the cell (same id and value) of the most *)
(* recent push not yet popped or cleared and leaves the others as they     *)
(* were, so push(v) followed at once by pop() returns v and restores the   *)
(* contents; the size goes up by one per push, down by one per successful  *)
(* pop and to zero on clear.                                               *)
(***************************************************************************)
\* Ids are handed out in creation order: the cell made last, and first.
Newest(cells) ==
  CHOOSE c \in Range(cells) : \A d \in Range(cells) : d.id <= c.id
Oldest(cells) ==
  CHOOSE c \in Range(cells) : \A d \in Range(cells) : c.id <= d.id

\* The cells without cell c, in the order they had.
Minus(cells, c) ==
  LET keep(d) == d # c IN SelectSeq(cells, keep)

C17_StackLifo ==
  [][container = "STACK" =>
       LET before == stack.elements
           after  == stack'.elements
       IN /\ call'.op = "push" =>
               /\ after = Append(before, [value |-> call'.value,
                                          id |-> stack.nextNodeId])
               /\ Newest(after) = after[Len(after)]
               /\ Len(after) = Len(before) + 1
          /\ (call'.op = "pop" /\ before # <<>>) =>
               /\ call'.result = Newest(before)
               /\ after = Minus(before, Newest(before))
               /\ Len(after) = Len(before) - 1
          /\ (call.op = "push" /\ call'.op = "pop") =>
               /\ call'.result.value = call.value
               /\ call'.result.id \in call.created
               /\ Append(after, call.result) = before
          /\ call'.op = "clear" => after = <<>>
          /\ call'.op = "peek" => after = before
    ]_vars

\* A pop that returned a cell older than the last one created, with cells
\* left below it.
C17_Witness ==
  /\ container = "STACK"
  /\ call.op = "pop" /\ call.result # nullptr
  /\ call.result.id < stack.nextNodeId - 1
  /\ Len(stack.elements) >= 1

(***************************************************************************)
(* C18: Queue is FIFO over any sequence of enqueue, dequeue and clear:     *)
(* dequeue returns the cell of the oldest enqueue not yet dequeued or      *)
(* cleared, the remaining cells keep their order with the next-oldest at   *)
(* index 0, and enqueue(v) followed by dequeue() on a queue that was empty *)
(* returns v.                                                              *)
(***************************************************************************)
C18_QueueFifo ==
  [][container = "QUEUE" =>
       LET before == queue.elements
           after  == queue'.elements
       IN /\ call'.op = "enqueue" =>
               after = Append(before, [value |-> call'.value,
                                       id |-> queue.nextNodeId])
          /\ (call'.op = "dequeue" /\ before # <<>>) =>
               /\ call'.result = Oldest(before)
               /\ after = Minus(before, Oldest(before))
               /\ after # <<>> => after[1] = Oldest(after)
          /\ (call.op = "enqueue" /\ Len(before) = 1 /\ call'.op = "dequeue") =>
               /\ call'.result.value = call.value
               /\ call'.result.id \in call.created
               /\ after = <<>>
          /\ call'.op = "clear" => after = <<>>
          /\ call'.op \in {"peekFront", "peekRear"} => after = before
    ]_vars

\* A dequeue that returned a cell that was not the first one created and
\* left two cells or more.
C18_Witness ==
  /\ container = "QUEUE"
  /\ call.op = "dequeue" /\ call.result # nullptr
  /\ call.result.id >= 1
  /\ Len(queue.elements) >= 2

(***************************************************************************)
(* C19, as the code has it: when remove(v) or search(v) fails because v is *)
(* absent, the trace of a BST or AVL call is the descent from the root to  *)
(* the node whose link in v's direction is null, the trace of a list call  *)
(* is every node from head to tail, the trace of a heap search is every    *)
(* array index in order, and the trace of a heap remove is empty.          *)
(***************************************************************************)
\* p is the descent for value from root down to a node with no child on
\* value's side (an empty trace in an empty tree).
IsDescent(root, value, p) ==
  IF root = nullptr THEN p = <<>>
  ELSE LET links == Edges(root)
           side(id) == IF value < ValueOf(root, id) THEN "left" ELSE "right"
       IN /\ p # <<>> /\ p[1] = root.id
          /\ \A i \in 1..Len(p) - 1 : <<p[i], side(p[i]), p[i + 1]>> \in links
          /\ ~ \E link \in links :
                 link[1] = p[Len(p)] /\ link[2] = side(p[Len(p)])

\* The traces of the calls that fail on the container as it stands, but
\* for the heap remove.
FailedSearchTraces ==
  /\ container = "BST" =>
       \A v \in Keys \ TreeValues(bst.root) :
         LET r == BSTsearchHelper(bst.root, v, <<>>)
         IN r.node = nullptr /\ IsDescent(bst.root, v, r.path)
  /\ container = "AVL" =>
       \A v \in Keys \ TreeValues(avl.root) :
         LET r == AVLsearchHelper(avl.root, v, <<>>)
         IN r.node = nullptr /\ IsDescent(avl.root, v, r.path)
  /\ container = "LIST" =>
       \A v \in Values \ Range(ListValues(list)) :
         LET r == LLsearch(list, v, list.head, <<>>)
         IN r.node = NULL /\ r.path = LLwalk(list.node, list.head)
  /\ container = "HEAP" =>
       \A v \in Values \ Range(HeapValues(mh.heap)) :
         LET r == MHsearch(mh.heap, v, 0, <<>>)
         IN /\ r.index = -1
            /\ r.searchPath = [i \in 1..Len(mh.heap) |-> i - 1]

FailedTreeAndListRemoveTraces ==
  (call'.op = "remove" /\ ~call'.success) =>
     /\ IsTree => IsDescent(Root, call'.value, call'.path)
     /\ container = "LIST" => call'.path = LLwalk(list.node, list.head)

C19_FailedTraceButHeapRemove ==
  [][/\ FailedSearchTraces
     /\ FailedTreeAndListRemoveTraces
     /\ (container = "HEAP" /\ call'.op = "remove" /\ ~call'.success) =>
          call'.path = <<>>
    ]_vars

\* C19 as stated: the trace of the failed heap remove too is every array
\* index scanned.
C19_FailedTraceIsInspected ==
  [][/\ FailedSearchTraces
     /\ FailedTreeAndListRemoveTraces
     /\ (container = "HEAP" /\ call'.op = "remove" /\ ~call'.success) =>
          call'.path = [i \in 1..Len(mh.heap) |-> i - 1]
    ]_vars

\* A heap remove that scanned two cells or more and found nothing.
C19_Witness ==
  /\ container = "HEAP"
  /\ call.op = "remove" /\ ~call.success
  /\ call.path = <<>>
  /\ Len(mh.heap) >= 2

(***************************************************************************)
(* C20: the trace of a BST insert starts at the root; each two consecutive *)
(* elements are parent and child in the tree as it is when insert returns; *)
(* the last element is the node just created when the insert succeeded and *)
(* the node that already held the value when it was a duplicate.           *)
(***************************************************************************)
C20_InsertTrace ==
  [][(container = "BST" /\ call'.op = "insert") =>
       LET p == call'.path
           links == Edges(bst'.root)
           last == p[Len(p)]
       IN /\ p # <<>> /\ p[1] = bst'.root.id
          /\ \A i \in 1..Len(p) - 1 :
               \E side \in {"left", "right"} : <<p[i], side, p[i + 1]>> \in links
          /\ ValueOf(bst'.root, last) = call'.value
          /\ IF call'.success
             THEN /\ last = bst.nextNodeId /\ last \notin issued
                  /\ bst'.nextNodeId = bst.nextNodeId + 1
                  /\ call'.value \notin TreeValues(bst.root)
             ELSE /\ last \in Range(HeldIds)
                  /\ ValueOf(bst.root, last) = call'.value
                  /\ bst' = bst
    ]_vars

\* An insert that walked through two nodes and hung a third under them.
C20_Witness ==
  /\ container = "BST"
  /\ call.op = "insert" /\ call.success
  /\ Len(call.path) = 3
  /\ call.path[3] = bst.nextNodeId - 1

(***************************************************************************)
(* C21, as the code has it: the trace of an AVL insert is the descent in   *)
(* the tree as it stood before rebalancing.  Each consecutive pair is a    *)
(* parent and its child in the tree the call was made on, the last pair of *)
(* a successful insert being the link to the node the call created; the    *)
(* last element is that node, or the node already holding the value on a   *)
(* duplicate.  The pairs are links of the returned tree too when the       *)
(* insert reports no rotation.                                             *)
(***************************************************************************)
\* a and b are parent and child, in this order, by one of the links.
Linked(links, a, b) == \E side \in {"left", "right"} : <<a, side, b>> \in links

C21_InsertTraceIsDescent ==
  [][(container = "AVL" /\ call'.op = "insert") =>
       LET p    == call'.path
           pre  == Edges(avl.root)
           post == Edges(avl'.root)
           last == p[Len(p)]
       IN /\ p # <<>>
          /\ avl.root # nullptr => p[1] = avl.root.id
          /\ \A i \in 1..Len(p) - 2 : Linked(pre, p[i], p[i + 1])
          /\ ValueOf(avl'.root, last) = call'.value
          /\ IF call'.success
             THEN /\ last = avl.nextNodeId /\ last \notin issued
                  /\ Len(p) >= 2 =>
                       LET leaf == p[Len(p) - 1]
                           side == IF call'.value < ValueOf(avl.root, leaf)
                                   THEN "left" ELSE "right"
                       IN /\ ~ \E link \in pre : link[1] = leaf /\ link[2] = side
                          /\ call'.rotation = "NONE" => <<leaf, side, last>> \in post
             ELSE /\ Len(p) >= 2 => Linked(pre, p[Len(p) - 1], last)
                  /\ ValueOf(avl.root, last) = call'.value
                  /\ avl' = avl
          /\ call'.rotation = "NONE" =>
               \A i \in 1..Len(p) - 1 : Linked(post, p[i], p[i + 1])
    ]_vars

\* C21 as stated, read in the widest way (either node of a pair may be the
\* parent): each consecutive pair of the trace is linked in the tree as it
\* stands when insert returns.
C21_InsertTraceLinkedOnReturn ==
  [][(container = "AVL" /\ call'.op = "insert") =>
       LET p    == call'.path
           post == Edges(avl'.root)
       IN \A i \in 1..Len(p) - 1 :
            Linked(post, p[i], p[i + 1]) \/ Linked(post, p[i + 1], p[i])
    ]_vars

\* An insert that rotated twice under the root: the first two nodes of its
\* trace end up as the two children of the third.
C21_Witness ==
  /\ container = "AVL"
  /\ call.op = "insert" /\ call.success
  /\ call.rotation = "LEFT_RIGHT"
  /\ Len(call.path) = 3
  /\ <<call.path[3], "right", call.path[1]>> \in Edges(avl.root)
  /\ <<call.path[3], "left", call.path[2]>> \in Edges(avl.root)

(***************************************************************************)
(* C22: search(v) on a non-empty BST or AVL tree leaves the tree as it     *)
(* is; its trace is the descent from the root towards v; when v is held    *)
(* the trace ends at the node holding v and that node is returned; when v  *)
(* is not held the trace ends at a node with no child on v's side and      *)
(* null is returned.                                                       *)
(***************************************************************************)
C22_SearchTrace ==
  [][(IsTree /\ call'.op = "search" /\ Root # nullptr) =>
       LET p     == call'.path
           v     == call'.value
           links == Edges(Root)
           last  == p[Len(p)]
           side(id) == IF v < ValueOf(Root, id) THEN "left" ELSE "right"
       IN /\ bst' = bst /\ avl' = avl
          /\ p # <<>> /\ p[1] = Root.id
          /\ \A i \in 1..Len(p) - 1 :
               /\ ValueOf(Root, p[i]) # v
               /\ <<p[i], side(p[i]), p[i + 1]>> \in links
          /\ IF v \in TreeValues(Root)
             THEN /\ ValueOf(Root, last) = v
                  /\ call'.result # nullptr
                  /\ call'.result.id = last /\ call'.result.value = v
             ELSE /\ ValueOf(Root, last) # v
                  /\ ~ \E link \in links : link[1] = last /\ link[2] = side(last)
                  /\ call'.result = nullptr
    ]_vars

\* A search that went down two links and found the value at the third node.
C22_Witness ==
  /\ IsTree
  /\ call.op = "search" /\ call.result # nullptr
  /\ Len(call.path) = 3
  /\ call.result.id = call.path[3]
  /\ call.result.value = call.value

C24_HeapInsertTrace ==
  [][(container = "HEAP" /\ call'.op = "insert") =>
       LET p    == call'.path
           v    == call'.value
           h    == mh'.heap
           last == p[Len(p)]
       IN /\ p # <<>> /\ p[1] = Len(mh.heap)
          /\ \A i \in 2..Len(p) : p[i - 1] > 0 /\ p[i] = parent(p[i - 1])
          /\ last \in 0..Len(h) - 1
          /\ At(h, last).id = mh.nextNodeId /\ At(h, last).value = v
          /\ last = 0 \/ At(h, parent(last)).value <= v
          /\ Len(h) = Len(mh.heap) + 1
    ]_vars

\* An insert that climbed from index 3 through index 1 to the root.
C24_Witness ==
  /\ container = "HEAP"
  /\ call.op = "insert"
  /\ call.path = <<3, 1, 0>>
  /\ mh.heap[1].value = call.value

(***************************************************************************)
(* C25: extractMin on a non-empty MinHeap returns the cell that was at     *)
(* index 0, which holds a minimum of the heap.  Its trace starts with 0    *)
(* and has one more index per swap: each is a child index (2i+1 or 2i+2)   *)
(* of the entry i before it, the slot of the smallest of the sifted cell   *)
(* and the children that exist, the left one when the two children are     *)
(* equal; the trace stops where no child is smaller than the sifted cell.  *)
(***************************************************************************)
\* The children of slot i that exist in h.
ChildrenIn(h, i) == {c \in {leftChild(i), rightChild(i)} : c < Len(h)}

C25_ExtractMinTrace ==
  [][(container = "HEAP" /\ call'.op = "extractMin" /\ mh.heap # <<>>) =>
       LET p  == call'.path
           \* the last cell moved to the root, the sift still to run: the
           \* cells off the trace stay as they are here
           h0 == pop_back([mh.heap EXCEPT ![1] = mh.heap[Len(mh.heap)]])
           x  == mh.heap[Len(mh.heap)].value
       IN /\ call'.result = At(mh.heap, 0)
          /\ \A i \in 1..Len(mh.heap) : call'.result.value <= mh.heap[i].value
          /\ p # <<>> /\ p[1] = 0
          /\ \A i \in 2..Len(p) :
               /\ p[i] \in ChildrenIn(h0, p[i - 1])
               /\ At(h0, p[i]).value < x
               /\ \A c \in ChildrenIn(h0, p[i - 1]) :
                    /\ At(h0, p[i]).value <= At(h0, c).value
                    /\ At(h0, p[i]).value = At(h0, c).value => p[i] <= c
               /\ At(mh'.heap, p[i - 1]) = At(h0, p[i])
          /\ \A c \in ChildrenIn(h0, p[Len(p)]) : At(h0, c).value >= x
          /\ h0 # <<>> => At(mh'.heap, p[Len(p)]) = mh.heap[Len(mh.heap)]
    ]_vars

\* An extractMin that swapped twice on the way down.
C25_Witness ==
  /\ container = "HEAP"
  /\ call.op = "extractMin" /\ call.result # nullptr
  /\ call.path = <<0, 1, 3>>

(***************************************************************************)
(* C26: MinHeap remove(v) with v held removes one cell, the one at the     *)
(* lowest index holding v: the size drops by one, the cells left (values   *)
(* with their ids) are the old ones but for that cell, the trace starts    *)
(* with the index found and goes on with the indices of the sift-down,     *)
(* then those of the sift-up, and the heap order holds on return, also     *)
(* when the cell removed stood in the last slot.                           *)
(***************************************************************************)
C26_HeapRemovePresent ==
  [][(container = "HEAP" /\ call'.op = "remove"
        /\ call'.value \in Range(HeapValues(mh.heap))) =>
       LET v  == call'.value
           p  == call'.path
           h  == mh.heap
           h1 == mh'.heap
           found == CHOOSE i \in 0..Len(h) - 1 :
                      /\ At(h, i).value = v
                      /\ \A j \in 0..i - 1 : At(h, j).value # v
       IN /\ call'.success
          /\ Len(h1) = Len(h) - 1
          /\ SeqToBag(h1) (+) SetToBag({At(h, found)}) = SeqToBag(h)
          /\ p # <<>> /\ p[1] = found
          /\ \E k \in 1..Len(p) :
               /\ \A i \in 2..k : p[i] \in ChildrenIn(h1, p[i - 1])
               /\ \A i \in k + 1..Len(p) :
                    p[i - 1] > 0 /\ p[i] = parent(p[i - 1])
          /\ found = Len(h) - 1 => p = <<found>> /\ h1 = pop_back(h)
          /\ \A i \in 1..Len(h1) - 1 : At(h1, parent(i)).value <= At(h1, i).value
    ]_vars

\* A remove whose replacement cell, taken from the other side of the heap,
\* sifted up.
C26_Witness ==
  /\ container = "HEAP"
  /\ call.op = "remove" /\ call.success
  /\ Len(call.path) >= 2
  /\ call.path[2] = parent(call.path[1])

(***************************************************************************)
(* C27: LinkedList remove(v) with v held detaches the first node from head *)
(* that holds v and returns it: the other nodes stay in their order with   *)
(* their values, the size drops by one, head and tail are the first and    *)
(* the last node left (null when none is), and the trace is the nodes from *)
(* head up to and including the one removed.  On 10 -> 20 -> 30,           *)
(* remove(10) returns the head, leaves head 20 and size 2, and the trace   *)
(* is the node of 10 alone.                                                *)
(***************************************************************************)
\* seq without its k-th element.
DropAt(seq, k) == SubSeq(seq, 1, k - 1) \o SubSeq(seq, k + 1, Len(seq))

\* remove(10) on the list that insertAtTail of 10, 20, 30 builds.
RemoveHeadExample ==
  LET empty == [head |-> NULL, tail |-> NULL, nextNodeId |-> 0, size |-> 0,
                node |-> <<>>]
      l1 == LLinsertAtTail(empty, 10).list
      l2 == LLinsertAtTail(l1, 20).list
      l3 == LLinsertAtTail(l2, 30).list
      r  == LLremove(l3, 10)
  IN /\ ListValues(l3) = <<10, 20, 30>>
     /\ r.success /\ r.deletedNode = l3.head
     /\ l3.node[r.deletedNode].value = 10
     /\ r.list.node[r.list.head].value = 20
     /\ r.list.size = 2
     /\ ListValues(r.list) = <<20, 30>>
     /\ r.path = <<l3.head>>

C27_ListRemovePresent ==
  [][/\ RemoveHeadExample
     /\ (container = "LIST" /\ call'.op = "remove"
           /\ call'.value \in Range(ListValues(list))) =>
          LET v  == call'.value
              w  == LLwalk(list.node, list.head)
              w1 == LLwalk(list'.node, list'.head)
              k  == CHOOSE i \in 1..Len(w) :
                      /\ list.node[w[i]].value = v
                      /\ \A j \in 1..i - 1 : list.node[w[j]].value # v
          IN /\ call'.success
             /\ call'.deletedNode = w[k]
             /\ w1 = DropAt(w, k)
             /\ \A i \in 1..Len(w1) : list'.node[w1[i]].value = list.node[w1[i]].value
             /\ list'.size = list.size - 1 /\ list'.size = Len(w1)
             /\ list'.head = IF w1 = <<>> THEN NULL ELSE w1[1]
             /\ list'.tail = IF w1 = <<>> THEN NULL ELSE w1[Len(w1)]
             /\ call'.path = SubSeq(w, 1, k)
             /\ list'.nextNodeId = list.nextNodeId
    ]_vars

\* A remove that took the second of three nodes, a later node holding the
\* same value.
C27_Witness ==
  /\ container = "LIST"
  /\ call.op = "remove" /\ call.success
  /\ Len(call.path) = 2
  /\ list.size = 2
  /\ call.value \in Range(ListValues(list))
  /\ list.node[list.tail].value = call.value

(***************************************************************************)
(* C28: an insert into an AVL tree that satisfies the AVL invariant        *)
(* rebalances at one node at most (one single or one double rotation), and *)
(* every ancestor above that node is in balance with the height it had     *)
(* before the insert.                                                      *)
(***************************************************************************)
\* The node of the subtree that carries id.
NodeWithId(root, id) ==
  LET ns == collectNodes(root)
  IN ns[CHOOSE i \in 1..Len(ns) : ns[i].id = id]

C28_OneRebalancePerInsert ==
  [][(container = "AVL" /\ call'.op = "insert") =>
       LET p == call'.path
           r == call'.rotated
       IN /\ Len(r) <= 1
          /\ ~call'.success => r = <<>>
          /\ \A n \in Range(collectNodes(avl'.root)) :
               /\ Abs(RealHeight(n.left) - RealHeight(n.right)) <= 1
               /\ n.height = RealHeight(n)
          /\ Len(r) = 1 =>
               /\ r[1].at \in Range(p)
               /\ avl'.root.height = avl.root.height
               /\ \A i \in 1..IndexIn(p, r[1].at) - 1 :
                    LET before == NodeWithId(avl.root, p[i])
                        after  == NodeWithId(avl'.root, p[i])
                    IN /\ after.height = before.height
                       /\ RealHeight(after) = RealHeight(before)
                       /\ Abs(getBalance(after)) <= 1
                       /\ getBalance(after) = getBalance(before)
    ]_vars

\* An insert that rotated three levels or more below the root.
C28_Witness ==
  /\ container = "AVL"
  /\ call.op = "insert" /\ call.success
  /\ Len(call.rotated) = 1
  /\ IndexIn(call.path, call.rotated[1].at) >= 3

(***************************************************************************)
(* C29: a successful remove(v) on a BST or an AVL tree changes the nodes   *)
(* of the tree, taken as (id, value) pairs, in one way only.  When the     *)
(* node holding v has two children it stays in the tree under its id with  *)
(* the successor's value and the successor's id is the one id to leave;    *)
(* otherwise the id of the node holding v is the one id to leave.  No      *)
(* other node changes its id or value.                                     *)
(***************************************************************************)
\* The nodes of a subtree as (id, value) pairs.
IdValues(root) ==
  {[id |-> n.id, value |-> n.value] : n \in Range(collectNodes(root))}

C29_RemoveFrame ==
  [][(IsTree /\ call'.op = "remove" /\ call'.success) =>
       LET v      == call'.value
           target == NodeHolding(Root, v)
           before == IdValues(Root)
           after  == IdValues(Root')
       IN IF target.left # nullptr /\ target.right # nullptr
          THEN LET succ == NodeWithId(Root, LeftmostId(target.right))
               IN after = (before \ {[id |-> target.id, value |-> v],
                                     [id |-> succ.id, value |-> succ.value]})
                          \cup {[id |-> target.id, value |-> succ.value]}
          ELSE after = before \ {[id |-> target.id, value |-> v]}
    ]_vars

\* A two-children remove in a tree of four nodes: three are left, and the
\* node named as deleted is one of them.
C29_Witness ==
  /\ IsTree
  /\ call.op = "remove" /\ call.success
  /\ Cardinality(IdValues(Root)) = 3
  /\ Len(call.path) = 3
  /\ Root.id = call.path[1]
  /\ call.path[3] \notin {n.id : n \in IdValues(Root)}
  /\ call.path[2] \in {n.id : n \in IdValues(Root)}

(***************************************************************************)
(* C30: the counter holds 2^31 allocations: with the counter in a 32-bit   *)
(* signed int that starts at 0, each creation of a node with an id in      *)
(* 0 .. 2^31-1, its post-increment included, leaves the counter in range,  *)
(* one above the id, without an overflow.                                  *)
(***************************************************************************)
C30_CounterHolds2p31 ==
  [][\A id \in call'.created :
       (0 <= id /\ id <= IntMax) =>
         /\ ~call'.overflow
         /\ Counter' > id
    ]_vars

Init ==
  /\ container \in Containers
  /\ bst = [root |-> nullptr, nextNodeId |-> 0]
  /\ avl = [root |-> nullptr, nextNodeId |-> 0]
  /\ mh = [heap |-> <<>>, nextNodeId |-> 0]
  /\ list = [head |-> NULL, tail |-> NULL, nextNodeId |-> 0, size |-> 0,
             node |-> <<>>]
  /\ stack = [elements |-> <<>>, nextNodeId |-> 0]
  /\ queue = [elements |-> <<>>, nextNodeId |-> 0]
  /\ call = NoCall
  /\ issued = {}
  /\ inserted = EmptyBag
  /\ released = {}

InitTree == Init /\ container \in {"BST", "AVL"}
InitHeap == Init /\ container = "HEAP"
InitList == Init /\ container = "LIST"
InitCells == Init /\ container \in {"STACK", "QUEUE"}

(***************************************************************************)
(* The counter at its width.  nextNodeId is an int and each creation ends  *)
(* with nextNodeId++.  The calls above are tried with the counter far from *)
(* IntMax, where n + 1 is the int the code computes; here BST::insert and  *)
(* LinkedList::insertAtTail are tried with the counter within MaxWideSteps *)
(* of IntMax.  Incrementing an int that holds IntMax is undefined: the     *)
(* outcomes kept are the wrap to the least int and, for any other value    *)
(* the build may leave in the counter, 0.                                  *)
(***************************************************************************)
PostIncrement(n) ==
  IF n < IntMax
  THEN {[value |-> n + 1, overflow |-> FALSE]}
  ELSE {[value |-> x, overflow |-> TRUE] : x \in {-IntMax - 1, 0}}

\* insertHelper, next being what nextNodeId++ leaves in the counter.
RECURSIVE BSTinsertHelper32(_, _, _, _)
BSTinsertHelper32(node, value, o, next) ==
  IF node = nullptr
  THEN [node |-> Node(value, o.nextNodeId),
        o |-> [o EXCEPT !.nextNodeId = next,
                        !.path = Append(@, o.nextNodeId),
                        !.created = @ \cup {o.nextNodeId}]]
  ELSE LET o1 == [o EXCEPT !.path = Append(@, node.id)] IN
       IF value < node.value
       THEN LET r == BSTinsertHelper32(node.left, value, o1, next) IN
            [node |-> [node EXCEPT !.left = r.node], o |-> r.o]
       ELSE IF value > node.value
       THEN LET r == BSTinsertHelper32(node.right, value, o1, next) IN
            [node |-> [node EXCEPT !.right = r.node], o |-> r.o]
       ELSE [node |-> node, o |-> [o1 EXCEPT !.success = FALSE]]

\* insertAtTail, next being what nextNodeId++ leaves in the counter.
LLinsertAtTail32(l, value, next) ==
  LET newNode == l.nextNodeId
      store   == (newNode :> ListNode(value)) @@ l.node
  IN IF l.head = NULL
     THEN [list |-> [head |-> newNode, tail |-> newNode,
                     nextNodeId |-> next, size |-> l.size + 1,
                     node |-> store],
           path |-> <<newNode>>]
     ELSE [list |-> [head |-> l.head, tail |-> newNode,
                     nextNodeId |-> next, size |-> l.size + 1,
                     node |-> [store EXCEPT ![l.tail].next = newNode]],
           path |-> Append(LLwalk(l.node, l.head), newNode)]

BSTInsert32(value) ==
  /\ container = "BST"
  /\ bst.nextNodeId >= IntMax - MaxWideSteps
  /\ \E inc \in PostIncrement(bst.nextNodeId) :
       LET r == BSTinsertHelper32(bst.root, value, Outs(bst.nextNodeId),
                                  inc.value)
       IN /\ bst' = [root |-> r.node, nextNodeId |-> r.o.nextNodeId]
          /\ call' = [Returned("insert", value, r.o) EXCEPT
                        !.overflow = (inc.overflow /\ r.o.created # {})]
          /\ issued' = issued \cup r.o.created
  /\ inserted' = IF BagIn(value, inserted) THEN inserted
                 ELSE inserted (+) SetToBag({value})
  /\ UNCHANGED <<container, avl, mh, list, stack, queue>>
  /\ UNCHANGED released

ListInsertAtTail32(value) ==
  /\ container = "LIST"
  /\ list.nextNodeId >= IntMax - MaxWideSteps
  /\ \E inc \in PostIncrement(list.nextNodeId) :
       LET r == LLinsertAtTail32(list, value, inc.value) IN
         /\ list' = r.list
         /\ call' = [NoCall EXCEPT !.op = "insertAtTail", !.value = value,
                                   !.path = r.path,
                                   !.created = {list.nextNodeId},
                                   !.overflow = inc.overflow]
  /\ issued' = issued \cup {list.nextNodeId}
  /\ UNCHANGED <<container, bst, avl, mh, stack, queue, inserted>>
  /\ UNCHANGED released

\* An empty BST or LinkedList whose counter stands within MaxWideSteps of
\* IntMax, as it does after that many creations, each node removed again;
\* issued holds the ids issued from here on.
InitCounter ==
  /\ container \in {"BST", "LIST"}
  /\ \E k \in 0..MaxWideSteps :
       /\ bst = [root |-> nullptr,
                 nextNodeId |-> IF container = "BST" THEN IntMax - k ELSE 0]
       /\ list = [head |-> NULL, tail |-> NULL,
                  nextNodeId |-> IF container = "LIST" THEN IntMax - k ELSE 0,
                  size |-> 0, node |-> <<>>]
  /\ avl = [root |-> nullptr, nextNodeId |-> 0]
  /\ mh = [heap |-> <<>>, nextNodeId |-> 0]
  /\ stack = [elements |-> <<>>, nextNodeId |-> 0]
  /\ queue = [elements |-> <<>>, nextNodeId |-> 0]
  /\ call = NoCall
  /\ issued = {}
  /\ inserted = EmptyBag
  /\ released = {}

NextCounter ==
  \/ \E v \in Keys : BSTInsert32(v)
  \/ \E v \in Keys : BSTRemove(v)
  \/ BSTClear
  \/ \E v \in Values : ListInsertAtTail32(v)
  \/ \E v \in Values : ListRemove(v)
  \/ ListClear

(***************************************************************************)
(* One removing call on a MinHeap of any content: the heaps that inserting *)
(* up to MaxHeapCells values, in any order, builds.                        *)
(***************************************************************************)
InitHeapAny ==
  /\ container = "HEAP"
  /\ \E n \in 0..MaxHeapCells :
       \E values \in [1..n -> Values] :
         /\ mh = [heap |-> InsertAll(<<>>, values, 0), nextNodeId |-> n]
         /\ issued = 0..(n - 1)
         /\ inserted = SeqToBag(values)
  /\ bst = [root |-> nullptr, nextNodeId |-> 0]
  /\ avl = [root |-> nullptr, nextNodeId |-> 0]
  /\ list = [head |-> NULL, tail |-> NULL, nextNodeId |-> 0, size |-> 0,
             node |-> <<>>]
  /\ stack = [elements |-> <<>>, nextNodeId |-> 0]
  /\ queue = [elements |-> <<>>, nextNodeId |-> 0]
  /\ call = NoCall
  /\ released = {}

NextHeapOnce ==
  \/ \E v \in Values : call.op = "none" /\ HeapRemove(v)
  \/ call.op = "none" /\ HeapExtractMin

(***************************************************************************)
(* One call on an AVLTree of any shape: the trees the class can hold with  *)
(* up to MaxTreeNodes nodes.  A tree with these ids is what inserting its  *)
(* values level by level builds (no insert of that order rotates).         *)
(***************************************************************************)

\* The fewest nodes an AVL tree of height h has.
RECURSIVE MinNodes(_)
MinNodes(h) == IF h <= 0 THEN 0 ELSE MinNodes(h - 1) + MinNodes(h - 2) + 1

RECURSIVE Pow2(_)
Pow2(n) == IF n = 0 THEN 1 ELSE 2 * Pow2(n - 1)

\* The AVL trees of height h whose n nodes hold the values 2*lo, 2*(lo+1),
\* ..., each node carrying its level-order slot (root 1, children 2s and
\* 2s+1) in the id field.
RECURSIVE AVLShapes(_, _, _, _)
AVLShapes(h, lo, n, slot) ==
  IF h < 0 \/ n < MinNodes(h) \/ n > Pow2(h) - 1 THEN {}
  ELSE IF h = 0 THEN {nullptr}
  ELSE UNION {
         { [value |-> 2 * (lo + k), left |-> l, right |-> r, height |-> h,
            id |-> slot] :
             l \in AVLShapes(hs[1], lo, k, 2 * slot),
             r \in AVLShapes(hs[2], lo + k + 1, n - k - 1, 2 * slot + 1) } :
         k \in 0..n - 1,
         hs \in {<<h - 1, h - 1>>, <<h - 1, h - 2>>, <<h - 2, h - 1>>} }

RECURSIVE Slots(_)
Slots(node) ==
  IF node = nullptr THEN {}
  ELSE {node.id} \cup Slots(node.left) \cup Slots(node.right)

\* Ids in creation order: the rank of each node's slot.
RECURSIVE LevelOrderIds(_, _)
LevelOrderIds(node, slots) ==
  IF node = nullptr THEN nullptr
  ELSE [node EXCEPT !.id = Cardinality({s \in slots : s < node.id}),
                    !.left = LevelOrderIds(node.left, slots),
                    !.right = LevelOrderIds(node.right, slots)]

AVLTreesOf(n) ==
  { LevelOrderIds(t, Slots(t)) : t \in UNION { AVLShapes(h, 1, n, 1) : h \in 0..n } }

InitAvlAny ==
  /\ container = "AVL"
  /\ \E n \in 0..MaxTreeNodes :
       /\ avl \in { [root |-> t, nextNodeId |-> n] : t \in AVLTreesOf(n) }
       /\ issued = 0..(n - 1)
       /\ inserted = SetToBag({2 * k : k \in 1..n})
  /\ bst = [root |-> nullptr, nextNodeId |-> 0]
  /\ mh = [heap |-> <<>>, nextNodeId |-> 0]
  /\ list = [head |-> NULL, tail |-> NULL, nextNodeId |-> 0, size |-> 0,
             node |-> <<>>]
  /\ stack = [elements |-> <<>>, nextNodeId |-> 0]
  /\ queue = [elements |-> <<>>, nextNodeId |-> 0]
  /\ call = NoCall
  /\ released = {}

\* One insert or one remove of any value around those of the tree.
NextAvlOnce ==
  \/ \E v \in 1..(2 * MaxTreeNodes + 1) : call.op = "none" /\ AVLinsert(v)
  \/ \E v \in 1..(2 * MaxTreeNodes + 1) : call.op = "none" /\ AVLRemove(v)

\* Any sequence of mutating calls on a BST or an AVLTree.
NextTree ==
  \/ \E v \in Keys : BSTInsert(v)
  \/ \E v \in Keys : BSTRemove(v)
  \/ BSTClear
  \/ \E v \in Keys : AVLInsert(v)
  \/ \E v \in Keys : AVLRemove(v)
  \/ AVLClear

\* Any sequence of calls on a MinHeap.
NextHeap ==
  \/ \E v \in Values : HeapInsert(v)
  \/ HeapExtractMin
  \/ HeapPeekMin
  \/ \E v \in Values : HeapRemove(v)
  \/ HeapClear

\* Any sequence of calls on a LinkedList.
NextList ==
  \/ \E v \in Values : ListInsertAtTail(v)
  \/ \E v \in Values : ListInsertAtHead(v)
  \/ \E v \in Values : ListRemove(v)
  \/ ListClear

\* Any sequence of calls on a Stack or a Queue.
NextCells ==
  \/ \E v \in Values : StackPush(v)
  \/ StackPop
  \/ StackPeek
  \/ StackClear
  \/ \E v \in Values : QueueEnqueue(v)
  \/ QueueDequeue
  \/ QueuePeekFront
  \/ QueuePeekRear
  \/ QueueClear

\* Any sequence of calls on any one of the six containers.
Next ==
  \/ \E v \in Keys : bst.nextNodeId < MaxIdAll /\ BSTInsert(v)
  \/ \E v \in Keys : BSTRemove(v)
  \/ \E v \in Keys : BSTContains(v)
  \/ BSTClear
  \/ \E v \in Keys : avl.nextNodeId < MaxIdAll /\ AVLInsert(v)
  \/ \E v \in Keys : AVLRemove(v)
  \/ \E v \in Keys : AVLContains(v)
  \/ AVLClear
  \/ \E v \in Values : mh.nextNodeId < MaxIdAll /\ HeapInsert(v)
  \/ HeapExtractMin
  \/ HeapPeekMin
  \/ \E v \in Values : HeapRemove(v)
  \/ HeapClear
  \/ \E v \in Values : stack.nextNodeId < MaxIdAll /\ StackPush(v)
  \/ StackPop
  \/ StackPeek
  \/ StackClear
  \/ \E v \in Values : queue.nextNodeId < MaxIdAll /\ QueueEnqueue(v)
  \/ QueueDequeue
  \/ QueuePeekFront
  \/ QueuePeekRear
  \/ QueueClear
  \/ \E v \in Values : list.nextNodeId < MaxIdAll /\ ListInsertAtTail(v)
  \/ \E v \in Values : list.nextNodeId < MaxIdAll /\ ListInsertAtHead(v)
  \/ \E v \in Values : ListRemove(v)
  \/ ListClear

\* Any sequence of mutating calls and searches on a BST or an AVLTree of
\* up to MaxIdAll nodes.
NextTreeSearch ==
  \/ \E v \in Keys : bst.nextNodeId < MaxIdAll /\ BSTInsert(v)
  \/ \E v \in Keys : BSTRemove(v)
  \/ \E v \in Keys : BSTSearch(v)
  \/ BSTClear
  \/ \E v \in Keys : avl.nextNodeId < MaxIdAll /\ AVLInsert(v)
  \/ \E v \in Keys : AVLRemove(v)
  \/ \E v \in Keys : AVLSearch(v)
  \/ AVLClear


Spec == Init /\ [][Next]_vars
SpecTree == InitTree /\ [][NextTree]_vars
SpecHeap == InitHeap /\ [][NextHeap]_vars
SpecList == InitList /\ [][NextList]_vars
SpecCells == InitCells /\ [][NextCells]_vars
SpecAvlOnce == InitAvlAny /\ [][NextAvlOnce]_vars
SpecHeapOnce == InitHeapAny /\ [][NextHeapOnce]_vars
SpecCounter == InitCounter /\ [][NextCounter]_vars
SpecTreeSearch == InitTree /\ [][NextTreeSearch]_vars
====
